---- MODULE Spec2Model ----
(***************************************************************************)
(* Model of the press report engine of definition/reports/press_report.py: *)
(* PressReportGenerator.parse_csv_log, calculate_metrics and the verdict   *)
(* reconciliation of generate_report.                                      *)
(*                                                                         *)
(* Numbers.  Python floats are modelled by exact integers in fixed units:  *)
(*   positions  millimetres, forces  kilograms,                            *)
(*   times      hundredths of a second (0.02 s = 2),                       *)
(*   energies   the list parsed from the log is in joules; the metric      *)
(*              `energy` and the energy thresholds are in units of         *)
(*              1/JouleScale joule, which makes the fallback integral      *)
(*              (f[i]+f[i-1])/2 * 9.81 * |dx|/1000 an exact integer.       *)
(* Optional values (Python None) are modelled as the empty tuple, a        *)
(* present value v as the one-element tuple <<v>>.                         *)
(***************************************************************************)
EXTENDS Integers, Sequences, FiniteSets, TLC

VARIABLES
    pc,                 \* position inside generate_report
    env,                \* what the invocation finds: the files and directories
                        \* that exist, whether the rendered text can be encoded
    headers,            \* parse_csv_log: reader.fieldnames
    pos_col,            \* parse_csv_log: resolved position column or None
    force_col,          \* parse_csv_log: resolved force column or None
    date_col,           \* parse_csv_log: resolved date column or None
    detected_force_mode, \* parse_csv_log: 'Load Cell', 'Motor Torque' or None
    output_file,        \* the file at output_path: absent, empty or written
    time_col,           \* parse_csv_log: resolved time column or None
    energy_col,         \* parse_csv_log: resolved energy column or None
    rows,               \* the data rows the csv reader has yielded so far
    times,              \* parse_csv_log: times / data['times']
    positions,          \* parse_csv_log: positions / data['positions']
    forces,             \* parse_csv_log: forces / data['forces']
    energies,           \* parse_csv_log: energies / data['energies']
    origin,             \* history: for each list, the row number of each element
    thresholds,         \* the six threshold arguments of generate_report
    telemetry_endpoint, \* the telemetry_endpoint argument of generate_report
    metrics,            \* the dictionary returned by calculate_metrics
    press_startpoint,   \* the press_startpoint argument of generate_report
    chart,              \* generate_report: the chart window and the chart payload
    start_time,         \* parse_csv_log: start_time
    end_time,           \* parse_csv_log: end_time
    context,            \* the template context assembled by generate_report
    result,             \* the tuple returned by generate_report, once it returned
    sim,                \* the device simulator: state, command_queue, stop event,
                        \* the task its worker is running, the datagrams sent
    shared_gui_refs,    \* operator view: the script runner and status text it polls
    view                \* operator view: its indicators and what it remembers

vars == <<pc, env, headers, pos_col, force_col, date_col, detected_force_mode,
          output_file, time_col, energy_col, rows, times, positions, forces, energies,
          origin, thresholds, telemetry_endpoint, metrics, press_startpoint, chart,
          start_time, end_time, context, result, sim, shared_gui_refs, view>>

-----------------------------------------------------------------------------
(* Bounds and units *)

\* Largest number of data rows in a well-formed log.
MaxRows == 3

\* Largest number of data rows in a noisy log.
MaxNoisyRows == 2

\* Largest number of headers in a header row.
MaxHeaders == 3

\* Largest number of data rows in the log of a whole invocation.
MaxInvokeRows == 1

\* 0.02 s, the synthesized sample period, in hundredths of a second.
SampleStep == 2

\* 9.81 (kg to N), in hundredths.
Gravity == 981

\* Denominator of the energy unit: /2 (average), /100 (9.81), /1000 (mm to m).
JouleScale == 2 * 100 * 1000

None == <<>>

Some(v) == <<v>>

\* The value of a present optional.
Val(o) == o[1]

-----------------------------------------------------------------------------
(* Cells of a csv row and float() *)

\* The strings float() accepts, with the number each denotes.
FloatValue ==
    ("0" :> 0) @@ ("1" :> 1) @@ ("3" :> 3) @@ ("4" :> 4) @@ ("5" :> 5) @@
    ("10" :> 10) @@ ("50" :> 50) @@ ("60" :> 60) @@ ("100" :> 100)

\* float(s) raises ValueError unless s is a numeric literal.
IsFloat(s) == s \in DOMAIN FloatValue

Float(s) == FloatValue[s]

\* An empty cell (also a cell missing from a short row, which the reader
\* fills with None): both are falsy and are never handed to float().
Empty == ""

\* A non-empty cell float() rejects.
Malformed == "abc"

\* sep.join(names)
RECURSIVE Join(_, _)
Join(names, sep) ==
    IF names = <<>> THEN ""
    ELSE IF Len(names) = 1 THEN names[1]
    ELSE names[1] \o sep \o Join(Tail(names), sep)

-----------------------------------------------------------------------------
(* Strings *)

UpperLetters == "ABCDEFGHIJKLMNOPQRSTUVWXYZ"

LowerLetters == "abcdefghijklmnopqrstuvwxyz"

\* The character at index i of a string.
CharAt(s, i) == SubSeq(s, i, i)

\* str.lower() of one character.
LowerChar(c) ==
    IF \E i \in 1..Len(UpperLetters) : CharAt(UpperLetters, i) = c
    THEN CharAt(LowerLetters,
                CHOOSE i \in 1..Len(UpperLetters) : CharAt(UpperLetters, i) = c)
    ELSE c

\* str.lower()
RECURSIVE Lower(_)
Lower(s) ==
    IF s = "" THEN "" ELSE LowerChar(CharAt(s, 1)) \o Lower(SubSeq(s, 2, Len(s)))

\* sub in s
Contains(sub, s) ==
    \E i \in 1..(Len(s) - Len(sub) + 1) : SubSeq(s, i, i + Len(sub) - 1) = sub

\* repr() of a header.
Quoted(header) == "'" \o header \o "'"

\* str() of a list of headers, as an f-string formats it.
ListStr(hs) == "[" \o Join([i \in DOMAIN hs |-> Quoted(hs[i])], ", ") \o "]"

-----------------------------------------------------------------------------
(* generate_report: the paths of the invocation *)

csv_path == "log.csv"

output_path == "report.html"

\* The tuple generate_report returns on a failure.
Failure(message) ==
    [success |-> FALSE, message |-> message, output_path |-> None]

\* except FileNotFoundError
FileNotFound == Failure("CSV file not found: " \o csv_path)

\* except Exception as e, with str(e)
Unexpected(cause) == Failure("Error generating report: " \o cause)

\* parse_csv_log: open(csv_path, 'r').  A missing file raises
\* FileNotFoundError, which generate_report turns into its return value.
OpenLog ==
    /\ pc = "open"
    /\ IF env.csv_exists
       THEN pc' = "header" /\ UNCHANGED result
       ELSE pc' = "returned" /\ result' = FileNotFound
    /\ UNCHANGED <<sim, shared_gui_refs, view, press_startpoint, chart, start_time, end_time,
                   env, headers, pos_col, force_col, date_col,
                   detected_force_mode, output_file, time_col, energy_col,
                   rows, times, positions, forces, energies, origin,
                   thresholds, telemetry_endpoint, metrics, context>>

-----------------------------------------------------------------------------
(* parse_csv_log: column detection *)

NoColumns ==
    [pos_col |-> None, force_col |-> None, energy_col |-> None,
     time_col |-> None, date_col |-> None, detected_force_mode |-> None]

\* Variant: the two force patterns are tested before the position patterns.
ClaimHeaderForceFirst(cols, header) ==
    LET header_lower == Lower(header)
    IN  IF Contains("force_load_cell", header_lower)
        THEN [cols EXCEPT !.force_col = Some(header),
                          !.detected_force_mode = Some("Load Cell")]
        ELSE IF Contains("force_motor_torque", header_lower) /\ cols.force_col = None
        THEN [cols EXCEPT !.force_col = Some(header),
                          !.detected_force_mode = Some("Motor Torque")]
        ELSE IF Contains("current_pos", header_lower) \/ Contains("position", header_lower)
        THEN [cols EXCEPT !.pos_col = Some(header)]
        ELSE IF Contains("joules", header_lower) \/ Contains("energy", header_lower)
        THEN [cols EXCEPT !.energy_col = Some(header)]
        ELSE IF header_lower = "elapsed_s" \/ Contains("elapsed", header_lower)
        THEN [cols EXCEPT !.time_col = Some(header)]
        ELSE IF header_lower = "date"
        THEN [cols EXCEPT !.date_col = Some(header)]
        ELSE cols

\* Variant: a motor-torque header is taken although a force column is set.
ClaimHeaderTorqueOverrides(cols, header) ==
    LET header_lower == Lower(header)
    IN  IF Contains("current_pos", header_lower) \/ Contains("position", header_lower)
        THEN [cols EXCEPT !.pos_col = Some(header)]
        ELSE IF Contains("force_load_cell", header_lower)
        THEN [cols EXCEPT !.force_col = Some(header),
                          !.detected_force_mode = Some("Load Cell")]
        ELSE IF Contains("force_motor_torque", header_lower)
        THEN [cols EXCEPT !.force_col = Some(header),
                          !.detected_force_mode = Some("Motor Torque")]
        ELSE IF Contains("joules", header_lower) \/ Contains("energy", header_lower)
        THEN [cols EXCEPT !.energy_col = Some(header)]
        ELSE IF header_lower = "elapsed_s" \/ Contains("elapsed", header_lower)
        THEN [cols EXCEPT !.time_col = Some(header)]
        ELSE IF header_lower = "date"
        THEN [cols EXCEPT !.date_col = Some(header)]
        ELSE cols

\* Variant: a position header is taken only while no position column is set.
ClaimHeaderPositionKept(cols, header) ==
    LET header_lower == Lower(header)
    IN  IF (Contains("current_pos", header_lower) \/ Contains("position", header_lower))
           /\ cols.pos_col = None
        THEN [cols EXCEPT !.pos_col = Some(header)]
        ELSE IF Contains("force_load_cell", header_lower)
        THEN [cols EXCEPT !.force_col = Some(header),
                          !.detected_force_mode = Some("Load Cell")]
        ELSE IF Contains("force_motor_torque", header_lower) /\ cols.force_col = None
        THEN [cols EXCEPT !.force_col = Some(header),
                          !.detected_force_mode = Some("Motor Torque")]
        ELSE IF Contains("joules", header_lower) \/ Contains("energy", header_lower)
        THEN [cols EXCEPT !.energy_col = Some(header)]
        ELSE IF header_lower = "elapsed_s" \/ Contains("elapsed", header_lower)
        THEN [cols EXCEPT !.time_col = Some(header)]
        ELSE IF header_lower = "date"
        THEN [cols EXCEPT !.date_col = Some(header)]
        ELSE cols

\* One iteration of `for header in headers`: the if/elif chain.
ClaimHeader(cols, header) ==
    LET header_lower == Lower(header)
    IN  IF Contains("current_pos", header_lower) \/ Contains("position", header_lower)
        THEN [cols EXCEPT !.pos_col = Some(header)]
        ELSE IF Contains("force_load_cell", header_lower)
        THEN [cols EXCEPT !.force_col = Some(header),
                          !.detected_force_mode = Some("Load Cell")]
        ELSE IF Contains("force_motor_torque", header_lower) /\ cols.force_col = None
        THEN [cols EXCEPT !.force_col = Some(header),
                          !.detected_force_mode = Some("Motor Torque")]
        ELSE IF Contains("joules", header_lower) \/ Contains("energy", header_lower)
        THEN [cols EXCEPT !.energy_col = Some(header)]
        ELSE IF header_lower = "elapsed_s" \/ Contains("elapsed", header_lower)
        THEN [cols EXCEPT !.time_col = Some(header)]
        ELSE IF header_lower = "date"
        THEN [cols EXCEPT !.date_col = Some(header)]
        ELSE cols

\* The header loop run over the first n headers.
RECURSIVE DetectColumns(_, _)
DetectColumns(hs, n) ==
    IF n = 0 THEN NoColumns ELSE ClaimHeader(DetectColumns(hs, n - 1), hs[n])

\* Variant: the check fails only when both columns are missing.
MissingColumnsBoth(cols) == cols.pos_col = None /\ cols.force_col = None

\* if not pos_col or not force_col
MissingColumns(cols) == cols.pos_col = None \/ cols.force_col = None

\* str(e) of the ValueError raised for missing columns.
MissingColumnsText(hs) ==
    "CSV file missing required columns. " \o "Found: " \o ListStr(hs) \o ". "
        \o "Need position and force columns."

\* The header loop and the check that follows it.  The ValueError leaves
\* parse_csv_log and is caught by generate_report's `except Exception`.
ResolveColumns ==
    /\ pc = "header"
    /\ LET cols == DetectColumns(headers, Len(headers))
       IN  /\ pos_col' = cols.pos_col
           /\ force_col' = cols.force_col
           /\ energy_col' = cols.energy_col
           /\ time_col' = cols.time_col
           /\ date_col' = cols.date_col
           /\ detected_force_mode' = cols.detected_force_mode
           /\ IF MissingColumns(cols)
              THEN /\ pc' = "returned"
                   /\ result' = Unexpected(MissingColumnsText(headers))
              ELSE /\ pc' = "reading"
                   /\ UNCHANGED result
    /\ UNCHANGED <<sim, shared_gui_refs, view, press_startpoint, chart, start_time, end_time,
                   env, headers, output_file, rows, times, positions, forces,
                   energies, origin, thresholds, telemetry_endpoint, metrics,
                   context>>

-----------------------------------------------------------------------------
(* parse_csv_log: the row loop *)

\* The date strings strptime accepts for "%Y-%m-%d", with their day of 2024.
DayValue == ("2024-01-02" :> 2) @@ ("2024-01-03" :> 3)

\* The time strings strptime accepts for "%H:%M:%S.%f", in milliseconds.
ClockValue ==
    ("00:00:00.000" :> 0) @@ ("10:00:01.500" :> 36001500) @@
    ("10:00:02.250" :> 36002250)

\* row.get('time_ms', '00:00:00.000'): the cell, or the default when the row
\* has no such key.
TimeStr(row) == IF row.time_ms = None THEN "00:00:00.000" ELSE Val(row.time_ms)

\* Variant: a row without a time_ms key gives no timestamp.
StampOfTimedRows(row, reached) ==
    IF reached /\ date_col # None /\ row.date # Empty
           /\ row.time_ms # None
           /\ row.date \in DOMAIN DayValue /\ TimeStr(row) \in DOMAIN ClockValue
    THEN Some([day |-> DayValue[row.date], ms |-> ClockValue[TimeStr(row)]])
    ELSE None

\* "Track start/end dates": the datetime of the row, or None when the block
\* is not reached, the date cell is empty or strptime raises.
StampOf(row, reached) ==
    IF reached /\ date_col # None /\ row.date # Empty
           /\ row.date \in DOMAIN DayValue /\ TimeStr(row) \in DOMAIN ClockValue
    THEN Some([day |-> DayValue[row.date], ms |-> ClockValue[TimeStr(row)]])
    ELSE None

\* Variant: the synthesized times are counted from one.
SynthTimeOneBased(n) == (n + 1) * SampleStep

\* len(times) * 0.02
SynthTime(n) == n * SampleStep

\* The try block run on one row: for each list, the element the row appends to
\* it, or None when the row appends nothing to it.  A float() that raises
\* abandons the rest of the block; what was appended before it stays.
ParseRow(row) ==
    LET time_given == time_col # None /\ row.time # Empty
        time_raises == time_given /\ ~IsFloat(row.time)
        pos_given == ~time_raises /\ row.position # Empty
        pos_raises == pos_given /\ ~IsFloat(row.position)
        force_given == ~time_raises /\ ~pos_raises /\ row.force # Empty
        force_raises == force_given /\ ~IsFloat(row.force)
        energy_given == /\ ~time_raises /\ ~pos_raises /\ ~force_raises
                        /\ energy_col # None /\ row.energy # Empty
        energy_raises == energy_given /\ ~IsFloat(row.energy)
    IN  [time     |-> IF time_raises THEN None
                      ELSE IF time_given THEN Some(Float(row.time) * 100)
                      ELSE Some(SynthTime(Len(times))),
         position |-> IF pos_given /\ ~pos_raises
                      THEN Some(Float(row.position)) ELSE None,
         force    |-> IF force_given /\ ~force_raises
                      THEN Some(Float(row.force)) ELSE None,
         energy   |-> IF energy_given /\ ~energy_raises
                      THEN Some(Float(row.energy)) ELSE None,
         stamp    |-> StampOf(row, ~(time_raises \/ pos_raises \/ force_raises
                                       \/ energy_raises)),
         raised   |-> time_raises \/ pos_raises \/ force_raises \/ energy_raises]

\* list.append of an optional element.
AppendIf(list, o) == IF o = None THEN list ELSE Append(list, Val(o))

\* The same append, recording the row number instead of the value.
MarkIf(list, o, n) == IF o = None THEN list ELSE Append(list, n)

\* One iteration of `for row in reader`.
ReadRow(row) ==
    /\ pc = "reading"
    /\ LET n == Len(rows) + 1
           got == ParseRow(row)
       IN  /\ rows' = Append(rows, row)
           /\ times' = AppendIf(times, got.time)
           /\ positions' = AppendIf(positions, got.position)
           /\ forces' = AppendIf(forces, got.force)
           /\ energies' = AppendIf(energies, got.energy)
           /\ origin' = [times     |-> MarkIf(origin.times, got.time, n),
                         positions |-> MarkIf(origin.positions, got.position, n),
                         forces    |-> MarkIf(origin.forces, got.force, n),
                         energies  |-> MarkIf(origin.energies, got.energy, n)]
           /\ start_time' = (IF start_time = None THEN got.stamp ELSE start_time)
           /\ end_time' = (IF got.stamp # None THEN got.stamp ELSE end_time)
    /\ UNCHANGED <<sim, shared_gui_refs, view, press_startpoint, chart,
                   env, headers, pos_col, force_col, date_col,
                   detected_force_mode, output_file,
                   pc, time_col, energy_col, thresholds, telemetry_endpoint,
                   metrics, context, result>>

-----------------------------------------------------------------------------
(* parse_csv_log: truncation and return *)

Min2(a, b) == IF a <= b THEN a ELSE b

Max2(a, b) == IF a >= b THEN a ELSE b

\* list[:n]
Prefix(list, n) == SubSeq(list, 1, Min2(n, Len(list)))

\* Variant: the common length is taken from the times alone.
MinLenOfTimes(t, p, f) == Len(t)

\* min_len = min(len(times), len(positions), len(forces))
MinLen(t, p, f) == Min2(Len(t), Min2(Len(p), Len(f)))

\* if energies: energies = energies[:min(len(energies), min_len)]
TruncateEnergies(e, min_len) ==
    IF e # <<>> THEN Prefix(e, Min2(Len(e), min_len)) ELSE e

\* The reader is exhausted: the lists are cut to a common length and returned.
ParseReturn ==
    /\ pc = "reading"
    /\ LET min_len == MinLen(times, positions, forces)
       IN  /\ times' = Prefix(times, min_len)
           /\ positions' = Prefix(positions, min_len)
           /\ forces' = Prefix(forces, min_len)
           /\ energies' = TruncateEnergies(energies, min_len)
           /\ origin' = [times     |-> Prefix(origin.times, min_len),
                         positions |-> Prefix(origin.positions, min_len),
                         forces    |-> Prefix(origin.forces, min_len),
                         energies  |-> TruncateEnergies(origin.energies, min_len)]
    /\ pc' = "parsed"
    /\ UNCHANGED <<sim, shared_gui_refs, view, press_startpoint, chart, start_time, end_time,
                   env, headers, pos_col, force_col, date_col,
                   detected_force_mode, output_file,
                   time_col, energy_col, rows, thresholds, telemetry_endpoint,
                   metrics, context, result>>

\* Variant: the empty log is not checked for and goes on to calculate_metrics.
NoValidDataUnchecked ==
    /\ pc = "parsed"
    /\ positions = <<>>
    /\ pc' = "metrics"
    /\ UNCHANGED <<sim, shared_gui_refs, view, press_startpoint, chart, start_time, end_time,
                   env, headers, pos_col, force_col, date_col,
                   detected_force_mode, output_file,
                   time_col, energy_col, rows, times, positions, forces,
                   energies, origin, thresholds, telemetry_endpoint, metrics,
                   context, result>>

\* generate_report: `if not data['positions']: return (False, ...)`.
NoValidData ==
    /\ pc = "parsed"
    /\ positions = <<>>
    /\ pc' = "returned"
    /\ result' = Failure("No valid data found in CSV file")
    /\ UNCHANGED <<sim, shared_gui_refs, view, press_startpoint, chart, start_time, end_time,
                   env, headers, pos_col, force_col, date_col,
                   detected_force_mode, output_file,
                   time_col, energy_col, rows, times, positions, forces,
                   energies, origin, thresholds, telemetry_endpoint, metrics,
                   context>>

-----------------------------------------------------------------------------
(* calculate_metrics *)

\* max(list)
ListMax(list) ==
    CHOOSE m \in {list[i] : i \in DOMAIN list} : \A i \in DOMAIN list : list[i] <= m

\* Variant: the last index holding v.
ListIndexLast(list, v) ==
    CHOOSE i \in DOMAIN list : list[i] = v /\ \A j \in (i + 1)..Len(list) : list[j] # v

\* list.index(v): the first index holding v.
ListIndex(list, v) ==
    CHOOSE i \in DOMAIN list : list[i] = v /\ \A j \in 1..(i - 1) : list[j] # v

\* list[-1]
Last(list) == list[Len(list)]

Abs(x) == IF x < 0 THEN -x ELSE x

\* The integration loop `for i in range(1, len(positions))`, run up to index n:
\* the sum of avg_force * dx, in units of 1/JouleScale joule.
RECURSIVE IntegrateEnergy(_, _, _)
IntegrateEnergy(p, f, n) ==
    IF n <= 1 THEN 0
    ELSE IntegrateEnergy(p, f, n - 1)
         + (f[n] + f[n - 1]) * Gravity * Abs(p[n] - p[n - 1])

\* Variant: the loop with the signed displacement.
RECURSIVE IntegrateSigned(_, _, _)
IntegrateSigned(p, f, n) ==
    IF n <= 1 THEN 0
    ELSE IntegrateSigned(p, f, n - 1)
         + (f[n] + f[n - 1]) * Gravity * (p[n] - p[n - 1])

\* Variant: energy with the signed integral.
EnergySigned(p, f, e) ==
    IF e # <<>> THEN Last(e) * JouleScale ELSE IntegrateSigned(p, f, Len(p))

\* energy: the last logged value if any, otherwise the integral.
Energy(p, f, e) ==
    IF e # <<>> THEN Last(e) * JouleScale ELSE IntegrateEnergy(p, f, Len(p))

\* Variant: exclusive bounds.
PeakForcePassExclusive(peak_force, force_min, force_max) ==
    IF force_min # None \/ force_max # None
    THEN LET after_min == IF force_min # None /\ peak_force <= Val(force_min)
                          THEN FALSE ELSE TRUE
             after_max == IF force_max # None /\ peak_force >= Val(force_max)
                          THEN FALSE ELSE after_min
         IN  Some(after_max)
    ELSE None

\* peak_force_pass
PeakForcePass(peak_force, force_min, force_max) ==
    IF force_min # None \/ force_max # None
    THEN LET after_min == IF force_min # None /\ peak_force < Val(force_min) THEN FALSE ELSE TRUE
             after_max == IF force_max # None /\ peak_force > Val(force_max) THEN FALSE ELSE after_min
         IN  Some(after_max)
    ELSE None

\* endpoint_pass
EndpointPass(endpoint, endpoint_min, endpoint_max) ==
    IF endpoint_min # None \/ endpoint_max # None
    THEN LET after_min == IF endpoint_min # None /\ endpoint < Val(endpoint_min) THEN FALSE ELSE TRUE
             after_max == IF endpoint_max # None /\ endpoint > Val(endpoint_max) THEN FALSE ELSE after_min
         IN  Some(after_max)
    ELSE None

\* energy_pass
EnergyPass(energy, energy_min, energy_max) ==
    IF energy_min # None \/ energy_max # None
    THEN LET after_min == IF energy_min # None /\ energy < Val(energy_min) THEN FALSE ELSE TRUE
             after_max == IF energy_max # None /\ energy > Val(energy_max) THEN FALSE ELSE after_min
         IN  Some(after_max)
    ELSE None

IsDefined(check) == check.pass # None

IsFailed(check) == ~Val(check.pass)

CheckNames(checks) == [i \in DOMAIN checks |-> checks[i].name]

\* Variant: an undefined verdict counts as a failed check.
OverallPassCountingUndefined(peak_force_pass, endpoint_pass, energy_pass) ==
    LET checks == <<[pass |-> peak_force_pass, name |-> "force"],
                    [pass |-> endpoint_pass, name |-> "endpoint"],
                    [pass |-> energy_pass, name |-> "energy"]>>
        NotPassed(check) == check.pass # Some(TRUE)
        failed == CheckNames(SelectSeq(checks, NotPassed))
    IN  IF SelectSeq(checks, IsDefined) # <<>>
        THEN IF failed # <<>>
             THEN [overall_pass |-> Some(FALSE),
                   pass_fail_reason |-> "Failed: " \o Join(failed, ", ")]
             ELSE [overall_pass |-> Some(TRUE),
                   pass_fail_reason |-> "All thresholds met"]
        ELSE [overall_pass |-> None,
              pass_fail_reason |-> "No thresholds defined"]

\* The overall verdict of calculate_metrics and its reason.
OverallPass(peak_force_pass, endpoint_pass, energy_pass) ==
    LET checks == <<[pass |-> peak_force_pass, name |-> "force"],
                    [pass |-> endpoint_pass, name |-> "endpoint"],
                    [pass |-> energy_pass, name |-> "energy"]>>
        defined_checks == SelectSeq(checks, IsDefined)
        failed == CheckNames(SelectSeq(defined_checks, IsFailed))
    IN  IF defined_checks # <<>>
        THEN IF failed # <<>>
             THEN [overall_pass |-> Some(FALSE),
                   pass_fail_reason |-> "Failed: " \o Join(failed, ", ")]
             ELSE [overall_pass |-> Some(TRUE),
                   pass_fail_reason |-> "All thresholds met"]
        ELSE [overall_pass |-> None,
              pass_fail_reason |-> "No thresholds defined"]

\* The percentage (num / den) * 100, held exactly; den is positive.
Percent(num, den) == [num |-> num, den |-> den]

\* The energy gauge: the places of the energy and of its two bounds on the
\* bar.  With both bounds the padding is half their distance, so the scale is
\* computed on doubled values to stay in whole numbers; with only energy_max
\* the scale ends at 1.2 = 6/5 times the larger of energy and energy_max.
Gauge(energy, energy_min, energy_max) ==
    LET unscaled == [energy_percent |-> Percent(50, 100),
                     energy_min_percent |-> Percent(0, 100),
                     energy_max_percent |-> Percent(100, 100)]
    IN  IF energy_min # None /\ energy_max # None
        THEN LET threshold_range == Val(energy_max) - Val(energy_min)
                 scale_min2 == Max2(0, 2 * Val(energy_min) - threshold_range)
                 scale_max2 == Max2(2 * energy, 2 * Val(energy_max) + threshold_range)
                 scale_range2 == scale_max2 - scale_min2
             IN  IF scale_range2 > 0
                 THEN [energy_percent |->
                           Percent(2 * energy - scale_min2, scale_range2),
                       energy_min_percent |->
                           Percent(2 * Val(energy_min) - scale_min2, scale_range2),
                       energy_max_percent |->
                           Percent(2 * Val(energy_max) - scale_min2, scale_range2)]
                 ELSE unscaled
        ELSE IF energy_max # None /\ Val(energy_max) > 0
        THEN LET largest == Max2(energy, Val(energy_max))
             IN  [energy_percent |-> Percent(energy * 5, largest * 6),
                  energy_min_percent |-> Percent(0, 100),
                  energy_max_percent |-> Percent(Val(energy_max) * 5, largest * 6)]
        ELSE unscaled

\* Variant: the branch for empty input counts the positions it was given.
calculate_metrics_counting(t, p, f, e, thr) ==
    IF p = <<>> \/ f = <<>>
    THEN [peak_force |-> 0, peak_force_position |-> 0, start_position |-> 0,
          endpoint |-> 0, energy |-> 0, duration |-> 0, data_points |-> Len(p)]
    ELSE
    LET peak_force == ListMax(f)
        peak_idx == ListIndex(f, peak_force)
        endpoint == Last(p)
        energy == Energy(p, f, e)
        peak_force_pass == PeakForcePass(peak_force, thr.force_min, thr.force_max)
        endpoint_pass == EndpointPass(endpoint, thr.endpoint_min, thr.endpoint_max)
        energy_pass == EnergyPass(energy, thr.energy_min, thr.energy_max)
        overall == OverallPass(peak_force_pass, endpoint_pass, energy_pass)
        gauge == Gauge(energy, thr.energy_min, thr.energy_max)
    IN  [peak_force |-> peak_force,
         peak_force_position |-> p[peak_idx],
         peak_force_pass |-> peak_force_pass,
         start_position |-> p[1],
         endpoint |-> endpoint,
         endpoint_pass |-> endpoint_pass,
         energy |-> energy,
         energy_pass |-> energy_pass,
         energy_percent |-> gauge.energy_percent,
         energy_min_percent |-> gauge.energy_min_percent,
         energy_max_percent |-> gauge.energy_max_percent,
         duration |-> IF t # <<>> THEN Last(t) - t[1] ELSE 0,
         data_points |-> Len(p),
         overall_pass |-> overall.overall_pass,
         pass_fail_reason |-> overall.pass_fail_reason]

\* calculate_metrics(data, force_min, ..., energy_max), data given by its lists.
calculate_metrics(t, p, f, e, thr) ==
    IF p = <<>> \/ f = <<>>
    THEN [peak_force |-> 0, peak_force_position |-> 0, start_position |-> 0,
          endpoint |-> 0, energy |-> 0, duration |-> 0, data_points |-> 0]
    ELSE
    LET peak_force == ListMax(f)
        peak_idx == ListIndex(f, peak_force)
        endpoint == Last(p)
        energy == Energy(p, f, e)
        peak_force_pass == PeakForcePass(peak_force, thr.force_min, thr.force_max)
        endpoint_pass == EndpointPass(endpoint, thr.endpoint_min, thr.endpoint_max)
        energy_pass == EnergyPass(energy, thr.energy_min, thr.energy_max)
        overall == OverallPass(peak_force_pass, endpoint_pass, energy_pass)
        gauge == Gauge(energy, thr.energy_min, thr.energy_max)
    IN  [peak_force |-> peak_force,
         peak_force_position |-> p[peak_idx],
         peak_force_pass |-> peak_force_pass,
         start_position |-> p[1],
         endpoint |-> endpoint,
         endpoint_pass |-> endpoint_pass,
         energy |-> energy,
         energy_pass |-> energy_pass,
         energy_percent |-> gauge.energy_percent,
         energy_min_percent |-> gauge.energy_min_percent,
         energy_max_percent |-> gauge.energy_max_percent,
         duration |-> IF t # <<>> THEN Last(t) - t[1] ELSE 0,
         data_points |-> Len(p),
         overall_pass |-> overall.overall_pass,
         pass_fail_reason |-> overall.pass_fail_reason]

\* generate_report: metrics = self.calculate_metrics(data, force_min=..., ...).
\* The threshold arguments are bound here, where the call first reads them.
CalculateMetrics(thr) ==
    /\ pc = "parsed"
    /\ positions # <<>>
    /\ thresholds' = thr
    /\ metrics' = calculate_metrics(times, positions, forces, energies, thr)
    /\ pc' = "metrics"
    /\ UNCHANGED <<sim, shared_gui_refs, view, press_startpoint, chart, start_time, end_time,
                   env, headers, pos_col, force_col, date_col,
                   detected_force_mode, output_file,
                   time_col, energy_col, rows, times, positions, forces,
                   energies, origin, telemetry_endpoint, context, result>>

\* calculate_metrics called on its own, with whatever lists the caller holds.
CalculateMetricsDirect(thr) ==
    /\ pc = "calling"
    /\ thresholds' = thr
    /\ metrics' = calculate_metrics(times, positions, forces, energies, thr)
    /\ pc' = "measured"
    /\ UNCHANGED <<sim, shared_gui_refs, view, press_startpoint, chart, start_time, end_time,
                   env, headers, pos_col, force_col, date_col,
                   detected_force_mode, output_file,
                   time_col, energy_col, rows, times, positions, forces,
                   energies, origin, telemetry_endpoint, context, result>>

-----------------------------------------------------------------------------
(* generate_report: the chart window *)

\* list[start:end], with indices counted from 0 as in the code.
Slice(list, start, end) == SubSeq(list, start + 1, Min2(end, Len(list)))

\* Variant: the window ends at the last sample.
EndpointIdxLastSample(p) == IF p # <<>> THEN Len(p) - 1 ELSE 0

\* endpoint_idx = positions.index(max(positions)) if positions else 0
EndpointIdx(p) == IF p # <<>> THEN ListIndex(p, ListMax(p)) - 1 ELSE 0

\* Variant: the window starts where the position exceeds the start point.
StartIdxExceeding(p, startpoint) ==
    IF startpoint # None /\ Val(startpoint) > 0
           /\ \E i \in DOMAIN p : p[i] > Val(startpoint)
    THEN (CHOOSE i \in DOMAIN p :
              p[i] > Val(startpoint) /\ \A j \in 1..(i - 1) : p[j] <= Val(startpoint)) - 1
    ELSE 0

\* start_idx: the loop over enumerate(positions) with its break.
StartIdx(p, startpoint) ==
    IF startpoint # None /\ Val(startpoint) > 0
           /\ \E i \in DOMAIN p : p[i] >= Val(startpoint)
    THEN (CHOOSE i \in DOMAIN p :
              p[i] >= Val(startpoint) /\ \A j \in 1..(i - 1) : p[j] < Val(startpoint)) - 1
    ELSE 0

\* Variant: the window ends before the farthest sample.
EndIdxExclusive(endpoint_idx, start_idx) == endpoint_idx

\* end_idx = max(endpoint_idx + 1, start_idx + 1)
EndIdx(endpoint_idx, start_idx) == Max2(endpoint_idx + 1, start_idx + 1)

\* The indices of the window and the dictionary given to json.dumps.
ChartData(t, p, f, e, startpoint) ==
    LET endpoint_idx == EndpointIdx(p)
        start_idx == StartIdx(p, startpoint)
        end_idx == EndIdx(endpoint_idx, start_idx)
    IN  [endpoint_idx |-> endpoint_idx,
         start_idx |-> start_idx,
         end_idx |-> end_idx,
         positions |-> Slice(p, start_idx, end_idx),
         forces |-> Slice(f, start_idx, end_idx),
         times |-> Slice(t, start_idx, end_idx),
         energies |-> IF e # <<>> THEN Slice(e, start_idx, end_idx) ELSE <<>>,
         full_positions |-> p,
         full_forces |-> f]

\* generate_report: the window is cut once the metrics are there.  The
\* press_startpoint argument is bound here, where the code first reads it.
ClipChart(startpoint) ==
    /\ pc = "metrics"
    /\ press_startpoint' = startpoint
    /\ chart' = ChartData(times, positions, forces, energies, startpoint)
    /\ pc' = "clipped"
    /\ UNCHANGED <<sim, shared_gui_refs, view, start_time, end_time, env, headers, pos_col, force_col,
                   date_col, detected_force_mode, output_file, time_col,
                   energy_col, rows, times, positions, forces, energies,
                   origin, thresholds, telemetry_endpoint, metrics, context,
                   result>>

-----------------------------------------------------------------------------
(* generate_report: the telemetry endpoint and the final verdict *)

\* Variant: the telemetry endpoint is not used.
FinalEndpointFromCsv(telemetry, csv_endpoint) == csv_endpoint

\* final_endpoint
FinalEndpoint(telemetry, csv_endpoint) ==
    IF telemetry # None THEN Val(telemetry) ELSE csv_endpoint

\* final_endpoint_pass
FinalEndpointPass(final_endpoint, endpoint_min, endpoint_max) ==
    IF endpoint_min # None \/ endpoint_max # None
    THEN LET after_min == IF endpoint_min # None /\ final_endpoint < Val(endpoint_min) THEN FALSE ELSE TRUE
             after_max == IF endpoint_max # None /\ final_endpoint > Val(endpoint_max) THEN FALSE ELSE after_min
         IN  Some(after_max)
    ELSE None

\* Variant: the verdict of calculate_metrics is kept as it is.
FinalOverallPassKept(m, final_endpoint_pass) ==
    [overall_pass |-> m.overall_pass, pass_fail_reason |-> m.pass_fail_reason]

\* Variant: the verdict is recomputed whenever thresholds are absent too.
FinalOverallPassAlways(m, final_endpoint_pass) ==
    LET checks == <<[pass |-> m.peak_force_pass, name |-> "force"],
                    [pass |-> final_endpoint_pass, name |-> "endpoint"],
                    [pass |-> m.energy_pass, name |-> "energy"]>>
        failed == CheckNames(SelectSeq(SelectSeq(checks, IsDefined), IsFailed))
    IN  IF failed # <<>>
        THEN [overall_pass |-> Some(FALSE),
              pass_fail_reason |-> "Failed: " \o Join(failed, ", ")]
        ELSE [overall_pass |-> Some(TRUE),
              pass_fail_reason |-> "All checks passed"]

\* overall_pass and pass_fail_reason after the endpoint was reconsidered.
FinalOverallPass(m, final_endpoint_pass) ==
    LET checks == <<[pass |-> m.peak_force_pass, name |-> "force"],
                    [pass |-> final_endpoint_pass, name |-> "endpoint"],
                    [pass |-> m.energy_pass, name |-> "energy"]>>
        defined_checks == SelectSeq(checks, IsDefined)
        failed == CheckNames(SelectSeq(defined_checks, IsFailed))
        kept == [overall_pass |-> m.overall_pass,
                 pass_fail_reason |-> m.pass_fail_reason]
    IN  IF final_endpoint_pass # None /\ final_endpoint_pass # m.endpoint_pass
        THEN IF defined_checks # <<>>
             THEN IF failed # <<>>
                  THEN [overall_pass |-> Some(FALSE),
                        pass_fail_reason |-> "Failed: " \o Join(failed, ", ")]
                  ELSE [overall_pass |-> Some(TRUE),
                        pass_fail_reason |-> "All checks passed"]
             ELSE kept
        ELSE kept

\* The verdict part of the template context.
AssembleContext(telemetry) ==
    /\ pc = "clipped"
    /\ telemetry_endpoint' = telemetry
    /\ LET final_endpoint == FinalEndpoint(telemetry, metrics.endpoint)
           final_endpoint_pass ==
               FinalEndpointPass(final_endpoint, thresholds.endpoint_min,
                                 thresholds.endpoint_max)
           final == FinalOverallPass(metrics, final_endpoint_pass)
       IN  context' = [peak_force |-> metrics.peak_force,
                       peak_force_pass |-> metrics.peak_force_pass,
                       start_position |-> metrics.start_position,
                       endpoint |-> final_endpoint,
                       endpoint_pass |-> final_endpoint_pass,
                       energy |-> metrics.energy,
                       energy_pass |-> metrics.energy_pass,
                       energy_percent |-> metrics.energy_percent,
                       energy_min_percent |-> metrics.energy_min_percent,
                       energy_max_percent |-> metrics.energy_max_percent,
                       overall_pass |-> final.overall_pass,
                       pass_fail_reason |-> final.pass_fail_reason,
                       data_points |-> metrics.data_points,
                       force_min |-> thresholds.force_min,
                       force_max |-> thresholds.force_max,
                       endpoint_min |-> thresholds.endpoint_min,
                       endpoint_max |-> thresholds.endpoint_max,
                       energy_min |-> thresholds.energy_min,
                       energy_max |-> thresholds.energy_max]
    /\ pc' = "context"
    /\ UNCHANGED <<sim, shared_gui_refs, view, press_startpoint, chart, start_time, end_time,
                   env, headers, pos_col, force_col, date_col,
                   detected_force_mode, output_file,
                   time_col, energy_col, rows, times, positions, forces,
                   energies, origin, thresholds, metrics, result>>

-----------------------------------------------------------------------------
(* generate_report: rendering and writing *)

\* self.env.get_template('press_report.html') and template.render(**context).
\* A missing template raises jinja2's TemplateNotFound, an IOError that is no
\* FileNotFoundError; its text is the template name.
Render ==
    /\ pc = "context"
    /\ IF env.template_exists
       THEN pc' = "rendered" /\ UNCHANGED result
       ELSE pc' = "returned" /\ result' = Unexpected("press_report.html")
    /\ UNCHANGED <<sim, shared_gui_refs, view, press_startpoint, chart, start_time, end_time,
                   env, headers, pos_col, force_col, date_col,
                   detected_force_mode, output_file, time_col, energy_col,
                   rows, times, positions, forces, energies, origin,
                   thresholds, telemetry_endpoint, metrics, context>>

\* What `with open(output_path, 'w', encoding='utf-8') as f: f.write(...)`
\* leaves at output_path and how the invocation ends.  open() raises
\* FileNotFoundError when the directory of output_path does not exist;
\* otherwise it creates or empties the file, and f.write() raises
\* UnicodeEncodeError when the text holds a character UTF-8 cannot encode.
WriteResult(e, before) ==
    IF ~e.output_dir_exists
    THEN [output_file |-> before, result |-> FileNotFound]
    ELSE IF ~e.encodable
    THEN [output_file |-> "empty",
          result |-> Unexpected("'utf-8' codec can't encode character")]
    ELSE [output_file |-> "written",
          result |-> [success |-> TRUE,
                      message |-> "Report generated successfully: " \o output_path,
                      output_path |-> Some(output_path)]]

\* Writing the rendered text and returning.
WriteOutput ==
    /\ pc = "rendered"
    /\ LET w == WriteResult(env, output_file)
       IN  /\ output_file' = w.output_file
           /\ result' = w.result
    /\ pc' = "returned"
    /\ UNCHANGED <<sim, shared_gui_refs, view, press_startpoint, chart, start_time, end_time,
                   env, headers, pos_col, force_col, date_col,
                   detected_force_mode, time_col, energy_col, rows, times,
                   positions, forces, energies, origin, thresholds,
                   telemetry_endpoint, metrics, context>>

-----------------------------------------------------------------------------
(* Inputs *)

Rows(T, P, F, E) ==
    [time : T, position : P, force : F, energy : E, date : {Empty},
     time_ms : {None}]

\* Rows of a noisy log: every column may hold an empty or a malformed cell.
\* A column the header does not have contributes no cell.
MessyRows ==
    Rows(IF time_col = None THEN {Empty} ELSE {Empty, Malformed, "1"},
         {Empty, Malformed, "10"},
         {Empty, Malformed, "100"},
         IF energy_col = None THEN {Empty} ELSE {Empty, Malformed, "3", "4"})

\* Rows of a well-formed log without a time column.
CleanRows ==
    Rows({Empty}, {"0", "10", "60"}, {"50", "100"},
         IF energy_col = None THEN {Empty} ELSE {"5"})

\* 9.81 J in energy units.
Joules981 == (Gravity * JouleScale) \div 100

NoThresholds ==
    [force_min |-> None, force_max |-> None, endpoint_min |-> None,
     endpoint_max |-> None, energy_min |-> None, energy_max |-> None]

ThresholdChoices ==
    [force_min : {None, Some(100)}, force_max : {None, Some(50), Some(100)},
     endpoint_min : {None, Some(10)}, endpoint_max : {None, Some(10), Some(50)},
     energy_min : {None, Some(Joules981)}, energy_max : {None, Some(Joules981)}]

TelemetryChoices == {None, Some(40), Some(60)}

-----------------------------------------------------------------------------
(* The device simulator: simulator.py *)
(* Times are in hundredths of a second, positions in millimetres, speeds   *)
(* in hundredths of a millimetre per second, and the energy counter in     *)
(* units of 0.00981 J (one kilogram over one millimetre).  An interpolated *)
(* position is rounded down to the millimetre.                             *)

\* The variables of the report generator.
reportVars == <<pc, env, headers, pos_col, force_col, date_col,
                detected_force_mode, output_file, time_col, energy_col, rows,
                times, positions, forces, energies, origin, thresholds,
                telemetry_endpoint, metrics, press_startpoint, chart,
                start_time, end_time, context, result>>

\* Largest number of commands the simulator is handed.
MaxCommands == 2

\* 2.0 s, the duration of a homing, of a move, and of a retract whose speed
\* is not positive.
FixedDuration == 200

\* 6.25 mm/s, the retract speed when the command names none.
DefaultSpeed == 625

\* time.sleep(0.1) at the end of each pass of the move loop.
LoopSleep == 10

\* The address handle_command is given for the GUI.
GuiAddress == "gui"

\* random.uniform(50, 300) and random.uniform(20, 60): the ends of each range.
ForceDraws == {50, 300}

TorqueDraws == {20, 60}

\* The device state before any command: the press rests at 0, not homed.
\* A key the code reads with state.get(key, default) starts at its default.
StateAtRest ==
    [MAIN_STATE |-> "STANDBY", current_pos |-> 0, homed |-> 0, retract_pos |-> 0,
     target_pos |-> 0, force_load_cell |-> 0, force_motor_torque |-> 0,
     force_source |-> "load_cell", torque_avg |-> 0, joules |-> 0]

\* command_queue is empty, the stop event is clear, no task runs, nothing was
\* sent.  History: log lists the calls of handle_command, handled counts
\* them, returned is what the last call returned ("True", "False") or raised
\* ("ValueError").
SimAtRest ==
    [state |-> StateAtRest, command_queue |-> <<>>, stop_event |-> FALSE,
     running |-> None, sent |-> <<>>, log |-> <<>>, handled |-> 0,
     returned |-> None]

\* The command names the simulator is sent.
CommandNames ==
    {"pressboi.home", "PRESSBOI.HOME", "pressboi.move", "pressboi.set_retract",
     "pressboi.retract", "pressboi.start_press"}

\* command.lower()
CmdLower == [c \in CommandNames |-> Lower(c)]

\* An argument is the number its text denotes, or None for a text float()
\* rejects.
BadArgument == None

\* float(args[0]) raises ValueError.
Raises(args) == args # <<>> /\ args[1] = BadArgument

\* float(args[0]) if args else default
FloatArg(args, default) == IF args # <<>> THEN Val(args[1]) ELSE default

\* abs(target - current_pos) / speed if speed > 0 else 2.0
RetractDuration(target, current_pos, speed) ==
    IF speed > 0 THEN (Abs(target - current_pos) * 100 * 100) \div speed
    ELSE FixedDuration

\* A queued (function, arguments) pair; id is the number of the command that
\* queued it.
HomingTask(duration, gui_address, command, id) ==
    [func |-> "simulate_homing", duration |-> duration,
     gui_address |-> gui_address, command |-> command, id |-> id]

MoveTask(target, duration, gui_address, command, id) ==
    [func |-> "simulate_move", target |-> target, duration |-> duration,
     gui_address |-> gui_address, command |-> command, id |-> id]

\* The task pressboi.retract queues.
Retract(s, args, gui_address, command) ==
    LET target == s.state.retract_pos
        speed == IF args # <<>> THEN 100 * Val(args[1]) ELSE DefaultSpeed
    IN  MoveTask(target, RetractDuration(target, s.state.current_pos, speed),
                 gui_address, command, s.handled + 1)

\* handle_command(device_sim, command, args, gui_address): the simulator
\* afterwards.
handle_command(s, command, args, gui_address) ==
    LET cmd_lower == CmdLower[command]
        id == s.handled + 1
        called == [s EXCEPT !.handled = id,
                            !.log = Append(@, [command |-> command,
                                               args |-> args])]
    IN  IF cmd_lower = "pressboi.home"
        THEN [called EXCEPT
                 !.state.MAIN_STATE = "HOMING",
                 !.command_queue =
                     Append(@, HomingTask(FixedDuration, gui_address, command, id)),
                 !.returned = Some("True")]
        ELSE IF cmd_lower = "pressboi.move"
        THEN IF Raises(args)
             THEN [called EXCEPT !.returned = Some("ValueError")]
             ELSE [called EXCEPT
                      !.state.MAIN_STATE = "MOVING",
                      !.command_queue =
                          Append(@, MoveTask(FloatArg(args, 0), FixedDuration,
                                             gui_address, command, id)),
                      !.returned = Some("True")]
        ELSE IF cmd_lower = "pressboi.set_retract"
        THEN IF Raises(args)
             THEN [called EXCEPT !.returned = Some("ValueError")]
             ELSE [called EXCEPT !.state.retract_pos = FloatArg(args, 0),
                                 !.returned = Some("False")]
        ELSE IF cmd_lower = "pressboi.retract"
        THEN IF Raises(args)
             THEN [called EXCEPT !.returned = Some("ValueError")]
             ELSE [called EXCEPT
                      !.state.MAIN_STATE = "MOVING",
                      !.command_queue =
                          Append(@, Retract(s, args, gui_address, command)),
                      !.returned = Some("True")]
        ELSE [called EXCEPT !.returned = Some("False")]

\* sock.sendto(f"DONE: {command}".encode(), gui_address).  History: task is
\* the number of the command whose task sends, stopped tells whether the stop
\* event was set by then.
SendDone(s, task) ==
    Append(s.sent, [data |-> "DONE: " \o task.command,
                    address |-> task.gui_address, task |-> task.id,
                    stopped |-> s.stop_event])

\* simulate_homing on waking, sending nothing.
simulate_homing_silent(s, task) ==
    IF s.stop_event
    THEN [s EXCEPT !.running = None]
    ELSE [s EXCEPT
             !.state.current_pos = 0, !.state.homed = 1,
             !.state.force_load_cell = 0, !.state.force_motor_torque = 0,
             !.state.force_source = "load_cell", !.state.joules = 0,
             !.state.MAIN_STATE = "STANDBY",
             !.running = None]

\* simulate_homing from the moment time.sleep(duration) returns.
simulate_homing(s, task) ==
    IF s.stop_event
    THEN [s EXCEPT !.running = None]
    ELSE [s EXCEPT
             !.state.current_pos = 0, !.state.homed = 1,
             !.state.force_load_cell = 0, !.state.force_motor_torque = 0,
             !.state.force_source = "load_cell", !.state.joules = 0,
             !.state.MAIN_STATE = "STANDBY",
             !.sent = SendDone(s, task),
             !.running = None]

\* simulate_move before its loop: the start position is read, the energy
\* counter is reset.
simulate_move_start(s, task) ==
    [s EXCEPT !.state.joules = 0,
              !.running = Some([task |-> task, elapsed |-> 0,
                                start_pos |-> s.state.current_pos,
                                prev_pos |-> s.state.current_pos])]

\* One pass of the loop of simulate_move: the body, the sleep, and the test
\* of the stop event.
simulate_move_pass(s, force_kg, torque) ==
    LET run == Val(s.running)
        task == run.task
        current_pos == run.start_pos +
            ((task.target - run.start_pos) * run.elapsed) \div task.duration
        distance_mm == Abs(current_pos - run.prev_pos)
        moved == [s EXCEPT
                     !.state.current_pos = current_pos,
                     !.state.force_load_cell = force_kg,
                     !.state.force_motor_torque = force_kg,
                     !.state.force_source = "load_cell",
                     !.state.torque_avg = torque,
                     !.state.joules = @ + force_kg * distance_mm]
    IN  IF s.stop_event
        THEN [moved EXCEPT !.running = None]
        ELSE [moved EXCEPT !.running = Some([run EXCEPT
                                !.prev_pos = current_pos,
                                !.elapsed = @ + LoopSleep])]

\* simulate_move after its loop.
simulate_move_done(s) ==
    LET task == Val(s.running).task
    IN  [s EXCEPT
            !.state.current_pos = task.target,
            !.state.force_load_cell = 0, !.state.force_motor_torque = 0,
            !.state.force_source = "load_cell",
            !.state.target_pos = task.target, !.state.torque_avg = 0,
            !.state.MAIN_STATE = "STANDBY",
            !.sent = SendDone(s, task),
            !.running = None]

\* A command arrives: handle_command is called.
HandleCommand(command, args) ==
    /\ sim.handled < MaxCommands
    /\ sim' = handle_command(sim, command, args, GuiAddress)
    /\ UNCHANGED <<reportVars, shared_gui_refs, view>>

\* The simulator's worker takes the next pair off command_queue and calls
\* the function: simulate_homing goes to sleep, simulate_move reaches its loop.
StartTask ==
    /\ sim.running = None
    /\ sim.command_queue # <<>>
    /\ LET task == Head(sim.command_queue)
           taken == [sim EXCEPT !.command_queue = Tail(@)]
       IN  sim' = IF task.func = "simulate_homing"
                  THEN [taken EXCEPT !.running = Some([task |-> task])]
                  ELSE simulate_move_start(taken, task)
    /\ UNCHANGED <<reportVars, shared_gui_refs, view>>

\* time.sleep(duration) returns in simulate_homing.
HomingWakes ==
    /\ sim.running # None
    /\ Val(sim.running).task.func = "simulate_homing"
    /\ sim' = simulate_homing(sim, Val(sim.running).task)
    /\ UNCHANGED <<reportVars, shared_gui_refs, view>>

\* The loop condition of simulate_move holds: one more pass.
MovePass ==
    /\ sim.running # None
    /\ Val(sim.running).task.func = "simulate_move"
    /\ Val(sim.running).elapsed < Val(sim.running).task.duration
    /\ \E force_kg \in ForceDraws, torque \in TorqueDraws :
           sim' = simulate_move_pass(sim, force_kg, torque)
    /\ UNCHANGED <<reportVars, shared_gui_refs, view>>

\* The loop condition of simulate_move fails: the move completes.
MoveDone ==
    /\ sim.running # None
    /\ Val(sim.running).task.func = "simulate_move"
    /\ Val(sim.running).elapsed >= Val(sim.running).task.duration
    /\ sim' = simulate_move_done(sim)
    /\ UNCHANGED <<reportVars, shared_gui_refs, view>>

\* The simulator is told to stop: the event simulate_homing and
\* simulate_move test is set.
SetStop ==
    /\ ~sim.stop_event
    /\ sim' = [sim EXCEPT !.stop_event = TRUE]
    /\ UNCHANGED <<reportVars, shared_gui_refs, view>>

\* What the worker does.
Worker == StartTask \/ HomingWakes \/ MovePass \/ MoveDone

-----------------------------------------------------------------------------
(* The press operator view: update_pass_fail and poll_state *)

\* The status texts of the main window: none, a reset that completed (two
\* spellings), an error and a warning with and without a device prefix, and
\* texts that name only a reset or only a completion.
StatusTexts ==
    {"", "Reset complete", "pressboi DONE: reset", "Resetting", "Homing complete",
     "PRESSBOI_ERROR: jam ", "WARNING: hot", "Ready"}

\* s.find(sub): the first index (from 1) where sub starts in s.
Find(sub, s) ==
    CHOOSE i \in 1..(Len(s) - Len(sub) + 1) :
        /\ SubSeq(s, i, i + Len(sub) - 1) = sub
        /\ \A j \in 1..(i - 1) : SubSeq(s, j, j + Len(sub) - 1) # sub

\* s.strip()
RECURSIVE Strip(_)
Strip(s) ==
    IF s = "" THEN ""
    ELSE IF CharAt(s, 1) = " " THEN Strip(SubSeq(s, 2, Len(s)))
    ELSE IF CharAt(s, Len(s)) = " " THEN Strip(SubSeq(s, 1, Len(s) - 1))
    ELSE s

\* display_text[idx + len(mark):].strip(), idx being where mark starts.
AfterMark(mark, text) ==
    Strip(SubSeq(text, Find(mark, text) + Len(mark), Len(text)))

\* 'reset' in status_text.lower() and
\* ('complete' in status_text.lower() or 'DONE' in status_text)
IsReset(text) ==
    /\ Contains("reset", Lower(text))
    /\ Contains("complete", Lower(text)) \/ Contains("DONE", text)

\* The text names an error or a warning.
IsProblem(text) ==
    \/ Contains("_ERROR:", text) \/ Contains("_WARNING:", text)
    \/ Contains("ERROR:", text) \/ Contains("WARNING:", text)

\* The message shown for an error or warning text: the device prefix and the
\* mark are cut off.
DisplayText(text) ==
    IF Contains("_ERROR:", text) THEN AfterMark("_ERROR:", text)
    ELSE IF Contains("_WARNING:", text) THEN AfterMark("_WARNING:", text)
    ELSE IF Contains("ERROR:", text) THEN AfterMark("ERROR:", text)
    ELSE IF Contains("WARNING:", text) THEN AfterMark("WARNING:", text)
    ELSE text

\* What update_pass_fail makes of each status text.
StatusRead ==
    [text \in StatusTexts |->
        [reset |-> IsReset(text), problem |-> IsProblem(text),
         display |-> DisplayText(text)]]

\* The elapsed minutes and seconds, formatted mm:ss; the clock is not
\* modelled, so every elapsed time reads the same.
ElapsedText == "mm:ss"

\* The script runners the main window can hold.
ScriptRunners == [is_running : BOOLEAN, is_held : BOOLEAN, had_errors : BOOLEAN]

\* No script has run and the main window shows no status.
RefsAtRest == [script_runner |-> None, status_var |-> Some("")]

\* The view as create_press_operator_view builds it.  branch is history: the
\* branch of the indicator chain the last poll took.
ViewAtRest ==
    [pass_fail_var |-> "READY", pass_fail_color |-> "COMMENT_COLOR",
     error_warning_var |-> "", cycle_time_var |-> "--:--",
     cycle_time_color |-> "PRIMARY_ACCENT", cycle_start_time |-> None,
     prev_running |-> FALSE, prev_held |-> FALSE, parent_exists |-> TRUE,
     branch |-> "none"]

\* The simulator and the operator view as they are built.
DevicesAtRest ==
    /\ sim = SimAtRest
    /\ shared_gui_refs = RefsAtRest
    /\ view = ViewAtRest

\* What a poll reads of the script runner; without one, nothing runs.
Observed(refs) ==
    IF refs.script_runner = None
    THEN [is_running |-> FALSE, is_held |-> FALSE, had_errors |-> FALSE]
    ELSE Val(refs.script_runner)

\* The idle branch sets READY whatever the indicator shows.
IdleIndicatorReady(v) ==
    [v EXCEPT !.pass_fail_var = "READY", !.pass_fail_color = "COMMENT_COLOR"]

\* The idle branch: READY unless the indicator shows PASS or FAIL.
IdleIndicator(v) ==
    IF v.pass_fail_var \notin {"PASS", "FAIL"}
    THEN [v EXCEPT !.pass_fail_var = "READY", !.pass_fail_color = "COMMENT_COLOR"]
    ELSE v

\* The cycle-time part of update_pass_fail.
CycleTime(v, seen) ==
    LET just_started == ~v.prev_running /\ seen.is_running
        just_stopped == v.prev_running /\ ~seen.is_running
        just_held == ~v.prev_held /\ seen.is_held
    IN  IF just_started
        THEN [v EXCEPT !.cycle_start_time = Some("now"),
                       !.cycle_time_var = "00:00",
                       !.cycle_time_color = "BUSY_BLUE"]
        ELSE IF seen.is_running /\ ~seen.is_held /\ v.cycle_start_time # None
        THEN [v EXCEPT !.cycle_time_var = ElapsedText]
        ELSE IF (just_stopped \/ just_held) /\ v.cycle_start_time # None
        THEN [v EXCEPT !.cycle_time_var = ElapsedText,
                       !.cycle_time_color =
                           IF seen.had_errors \/ seen.is_held
                           THEN "ERROR_RED" ELSE "SUCCESS_GREEN"]
        ELSE v

\* The indicator part of update_pass_fail.
Indicator(v, seen) ==
    LET just_stopped == v.prev_running /\ ~seen.is_running
        just_held == ~v.prev_held /\ seen.is_held
    IN  IF seen.is_running /\ ~seen.is_held
        THEN [v EXCEPT !.pass_fail_var = "RUNNING",
                       !.pass_fail_color = "BUSY_BLUE", !.branch = "running"]
        ELSE IF seen.is_held \/ just_held
        THEN [v EXCEPT !.pass_fail_var = "FAIL",
                       !.pass_fail_color = "ERROR_RED", !.branch = "held"]
        ELSE IF just_stopped
        THEN IF seen.had_errors
             THEN [v EXCEPT !.pass_fail_var = "FAIL",
                            !.pass_fail_color = "ERROR_RED", !.branch = "stopped"]
             ELSE [v EXCEPT !.pass_fail_var = "PASS",
                            !.pass_fail_color = "SUCCESS_GREEN",
                            !.branch = "stopped"]
        ELSE IF ~seen.is_running /\ ~seen.is_held
        THEN [IdleIndicator(v) EXCEPT !.branch = "idle"]
        ELSE [v EXCEPT !.branch = "none"]

\* The status part of update_pass_fail.
StatusPart(v, refs) ==
    IF refs.status_var = None THEN v
    ELSE LET read == StatusRead[Val(refs.status_var)]
         IN  IF read.reset
             THEN [v EXCEPT !.pass_fail_var = "READY",
                            !.pass_fail_color = "COMMENT_COLOR",
                            !.error_warning_var = "",
                            !.cycle_time_var = "--:--",
                            !.cycle_time_color = "PRIMARY_ACCENT",
                            !.cycle_start_time = None]
             ELSE IF read.problem
             THEN [v EXCEPT !.error_warning_var = read.display]
             ELSE IF v.pass_fail_var = "READY"
             THEN [v EXCEPT !.error_warning_var = ""]
             ELSE v

\* update_pass_fail(): the view afterwards.
update_pass_fail(v, refs) ==
    LET seen == Observed(refs)
        shown == Indicator(CycleTime(v, seen), seen)
        tracked == [shown EXCEPT !.prev_running = seen.is_running,
                                 !.prev_held = seen.is_held]
    IN  StatusPart(tracked, refs)

\* poll_state(): one poll, scheduled again while the parent widget exists.
PollState ==
    /\ view.parent_exists
    /\ view' = update_pass_fail(view, shared_gui_refs)
    /\ UNCHANGED <<reportVars, sim, shared_gui_refs>>

\* The main window starts a script, a script changes state, or the runner
\* is dropped.
SetScriptRunner(runner) ==
    /\ shared_gui_refs.script_runner # runner
    /\ shared_gui_refs' = [shared_gui_refs EXCEPT !.script_runner = runner]
    /\ UNCHANGED <<reportVars, sim, view>>

\* The main window shows another status text, or has no status variable.
SetStatus(status) ==
    /\ shared_gui_refs.status_var # status
    /\ shared_gui_refs' = [shared_gui_refs EXCEPT !.status_var = status]
    /\ UNCHANGED <<reportVars, sim, view>>

\* The parent widget is destroyed: no further poll is scheduled.
DestroyParent ==
    /\ view.parent_exists
    /\ view' = [view EXCEPT !.parent_exists = FALSE]
    /\ UNCHANGED <<reportVars, sim, shared_gui_refs>>

-----------------------------------------------------------------------------
(* Specifications *)

\* generate_report has resolved the position and force columns and enters the
\* row loop with empty lists.
InitLists ==
    /\ DevicesAtRest
    /\ pc = "reading"
    /\ rows = <<>>
    /\ times = <<>>
    /\ positions = <<>>
    /\ forces = <<>>
    /\ energies = <<>>
    /\ origin = [times |-> <<>>, positions |-> <<>>, forces |-> <<>>,
                 energies |-> <<>>]
    /\ thresholds = None
    /\ telemetry_endpoint = None
    /\ metrics = None
    /\ press_startpoint = None
    /\ chart = None
    /\ start_time = None
    /\ end_time = None
    /\ context = None
    /\ result = None

\* Every file and directory is there and the text can be encoded.
AllPresent ==
    [csv_exists |-> TRUE, template_exists |-> TRUE, output_dir_exists |-> TRUE,
     encodable |-> TRUE]

\* The column variables hold what the header loop found in the header row.
Resolved ==
    LET cols == DetectColumns(headers, Len(headers))
    IN  /\ pos_col = cols.pos_col
        /\ force_col = cols.force_col
        /\ energy_col = cols.energy_col
        /\ time_col = cols.time_col
        /\ date_col = cols.date_col
        /\ detected_force_mode = cols.detected_force_mode

InitParse ==
    /\ InitLists
    /\ env = AllPresent
    /\ output_file = "absent"
    /\ headers \in {<<"position", "Force_Load_Cell">>,
                    <<"elapsed_s", "position", "Force_Load_Cell">>,
                    <<"position", "Force_Load_Cell", "joules">>,
                    <<"elapsed_s", "position", "Force_Load_Cell", "joules">>}
    /\ Resolved

NextParse ==
    \/ Len(rows) < MaxNoisyRows /\ \E row \in MessyRows : ReadRow(row)
    \/ ParseReturn
    \/ NoValidData
    \/ CalculateMetrics(NoThresholds)

\* Noisy logs, parsed and measured without thresholds.
SpecParse == InitParse /\ [][NextParse]_vars

InitReport ==
    /\ InitLists
    /\ env = AllPresent
    /\ output_file = "absent"
    /\ headers \in {<<"position", "Force_Load_Cell">>,
                    <<"position", "Force_Load_Cell", "joules">>}
    /\ Resolved

NextReport ==
    \/ Len(rows) < MaxRows /\ \E row \in CleanRows : ReadRow(row)
    \/ ParseReturn
    \/ NoValidData
    \/ \E thr \in ThresholdChoices : CalculateMetrics(thr)
    \/ ClipChart(None)
    \/ \E telemetry \in TelemetryChoices : AssembleContext(telemetry)

\* Well-formed logs, measured against thresholds, with a telemetry endpoint.
SpecReport == InitReport /\ [][NextReport]_vars

\* The header names of the logs: position, load-cell and motor-torque
\* headers as the press writes them, some in capitals, one that matches both
\* the load-cell and the position pattern, one that matches both the
\* motor-torque and the energy pattern, and one that matches nothing.
HeaderNames ==
    {"position", "current_pos", "Force_Load_Cell", "force_motor_torque",
     "FORCE_MOTOR_TORQUE", "force_load_cell_position",
     "force_motor_torque_joules", "joules", "elapsed_s", "date", "serial"}

\* The header rows of at most MaxHeaders names.
HeaderRows == UNION {[1..n -> HeaderNames] : n \in 0..MaxHeaders}

EnvChoices ==
    [csv_exists : BOOLEAN, template_exists : BOOLEAN,
     output_dir_exists : BOOLEAN, encodable : BOOLEAN]

\* Data rows of the logs of whole invocations: a sample, or a row without
\* a position.
InvokeRows == Rows({Empty}, {Empty, "10"}, {"100"}, {Empty})

\* The header rows tried in an environment: none when there is no log, every
\* header row when nothing else is missing, and otherwise a complete one, so
\* that the invocation gets as far as the template and the output file.
InvokeHeaders(e) ==
    IF ~e.csv_exists THEN {<<>>}
    ELSE IF e = AllPresent THEN HeaderRows
    ELSE {<<"position", "Force_Load_Cell">>}

\* generate_report is entered: nothing is read yet.
InitInvoke ==
    /\ DevicesAtRest
    /\ pc = "open"
    /\ env \in EnvChoices
    /\ headers \in InvokeHeaders(env)
    /\ output_file = "absent"
    /\ pos_col = None
    /\ force_col = None
    /\ energy_col = None
    /\ time_col = None
    /\ date_col = None
    /\ detected_force_mode = None
    /\ rows = <<>>
    /\ times = <<>>
    /\ positions = <<>>
    /\ forces = <<>>
    /\ energies = <<>>
    /\ origin = [times |-> <<>>, positions |-> <<>>, forces |-> <<>>,
                 energies |-> <<>>]
    /\ thresholds = None
    /\ telemetry_endpoint = None
    /\ metrics = None
    /\ press_startpoint = None
    /\ chart = None
    /\ start_time = None
    /\ end_time = None
    /\ context = None
    /\ result = None

NextInvoke ==
    \/ OpenLog
    \/ ResolveColumns
    \/ Len(rows) < MaxInvokeRows /\ \E row \in InvokeRows : ReadRow(row)
    \/ ParseReturn
    \/ NoValidData
    \/ CalculateMetrics(NoThresholds)
    \/ ClipChart(None)
    \/ AssembleContext(None)
    \/ Render
    \/ WriteOutput

\* Whole invocations of generate_report, from opening the log to the return.
SpecInvoke == InitInvoke /\ [][NextInvoke]_vars

\* The log has a time_ms column.
HasTimeMs == \E i \in DOMAIN headers : headers[i] = "time_ms"

\* Rows of a dated log: the position may be empty or malformed, the date and
\* the time_ms cell may be empty, malformed or one of two values.  A log
\* without a time_ms column has rows without that key.
StampedRows ==
    [time : {Empty}, position : {Empty, Malformed, "10"}, force : {"100"},
     energy : {Empty},
     date : IF date_col = None THEN {Empty}
            ELSE {Empty, Malformed, "2024-01-02", "2024-01-03"},
     time_ms : IF HasTimeMs
               THEN {Some(Empty), Some(Malformed), Some("10:00:01.500"),
                     Some("10:00:02.250")}
               ELSE {None}]

InitStamp ==
    /\ InitLists
    /\ env = AllPresent
    /\ output_file = "absent"
    /\ headers \in {<<"date", "position", "Force_Load_Cell">>,
                    <<"date", "time_ms", "position", "Force_Load_Cell">>,
                    <<"time_ms", "position", "Force_Load_Cell">>}
    /\ Resolved

NextStamp ==
    \/ Len(rows) < MaxNoisyRows /\ \E row \in StampedRows : ReadRow(row)
    \/ ParseReturn
    \/ NoValidData
    \/ CalculateMetrics(NoThresholds)

\* Dated logs, read row by row.
SpecStamp == InitStamp /\ [][NextStamp]_vars

\* The press_startpoint arguments: absent, negative, zero, within the travel
\* of the logs, and beyond their farthest position.
StartpointChoices == {None, Some(-5), Some(0), Some(10), Some(30), Some(100)}

NextChart ==
    \/ Len(rows) < MaxRows /\ \E row \in CleanRows : ReadRow(row)
    \/ ParseReturn
    \/ NoValidData
    \/ CalculateMetrics(NoThresholds)
    \/ \E startpoint \in StartpointChoices : ClipChart(startpoint)
    \/ AssembleContext(None)

\* Well-formed logs, charted from a press start point.
SpecChart == InitReport /\ [][NextChart]_vars

\* A caller of calculate_metrics holds a data dictionary whose lists are each
\* empty or one element long, in every combination.
InitMetrics ==
    /\ DevicesAtRest
    /\ pc = "calling"
    /\ times \in {<<>>, <<0>>}
    /\ positions \in {<<>>, <<10>>}
    /\ forces \in {<<>>, <<100>>}
    /\ energies \in {<<>>, <<3>>}
    /\ env = AllPresent
    /\ headers = <<>>
    /\ output_file = "absent"
    /\ pos_col = None
    /\ force_col = None
    /\ energy_col = None
    /\ time_col = None
    /\ date_col = None
    /\ detected_force_mode = None
    /\ rows = <<>>
    /\ origin = [times |-> <<>>, positions |-> <<>>, forces |-> <<>>,
                 energies |-> <<>>]
    /\ thresholds = None
    /\ telemetry_endpoint = None
    /\ metrics = None
    /\ press_startpoint = None
    /\ chart = None
    /\ start_time = None
    /\ end_time = None
    /\ context = None
    /\ result = None

\* Energy bounds for the gauge: none, one, or two that differ.
GaugeThresholdChoices ==
    {[NoThresholds EXCEPT !.energy_min = lo, !.energy_max = hi] :
        lo \in {None, Some(Joules981)}, hi \in {None, Some(2 * Joules981)}}

NextMetrics ==
    \E thr \in ThresholdChoices \cup GaugeThresholdChoices :
        CalculateMetricsDirect(thr)

\* Single calls of calculate_metrics.
SpecMetrics == InitMetrics /\ [][NextMetrics]_vars

\* generate_report is not being called.
ReportAtRest ==
    /\ pc = "idle"
    /\ env = AllPresent
    /\ headers = <<>>
    /\ output_file = "absent"
    /\ pos_col = None
    /\ force_col = None
    /\ energy_col = None
    /\ time_col = None
    /\ date_col = None
    /\ detected_force_mode = None
    /\ rows = <<>>
    /\ times = <<>>
    /\ positions = <<>>
    /\ forces = <<>>
    /\ energies = <<>>
    /\ origin = [times |-> <<>>, positions |-> <<>>, forces |-> <<>>,
                 energies |-> <<>>]
    /\ thresholds = None
    /\ telemetry_endpoint = None
    /\ metrics = None
    /\ press_startpoint = None
    /\ chart = None
    /\ start_time = None
    /\ end_time = None
    /\ context = None
    /\ result = None

\* The commands sent to the simulator: each name with no argument, with a
\* number, and with a text that is no number; one name in capitals and one
\* the simulator leaves to the default handler.
SimCommands ==
    {[command |-> "pressboi.home", args |-> <<>>],
     [command |-> "PRESSBOI.HOME", args |-> <<>>],
     [command |-> "pressboi.move", args |-> <<>>],
     [command |-> "pressboi.move", args |-> <<Some(2)>>],
     [command |-> "pressboi.move", args |-> <<BadArgument>>],
     [command |-> "pressboi.set_retract", args |-> <<Some(2)>>],
     [command |-> "pressboi.retract", args |-> <<>>],
     [command |-> "pressboi.retract", args |-> <<Some(0)>>],
     [command |-> "pressboi.start_press", args |-> <<>>]}

InitSim ==
    /\ ReportAtRest
    /\ DevicesAtRest

NextSim ==
    \/ \E c \in SimCommands : HandleCommand(c.command, c.args)
    \/ StartTask
    \/ HomingWakes
    \/ MovePass
    \/ MoveDone
    \/ SetStop

\* The simulator with commands arriving while its worker runs the queued
\* tasks, and a stop at any moment.
SpecSim == InitSim /\ [][NextSim]_vars

NextSimRun ==
    \/ \E c \in SimCommands : HandleCommand(c.command, c.args)
    \/ StartTask
    \/ HomingWakes
    \/ MovePass
    \/ MoveDone

\* The simulator never told to stop.  The worker keeps calling what is
\* queued, and a sleep returns: its steps are taken when they stay possible.
SpecSimRun == InitSim /\ [][NextSimRun]_vars /\ WF_vars(Worker)

InitView ==
    /\ ReportAtRest
    /\ DevicesAtRest

NextView ==
    \/ PollState
    \/ \E runner \in {None} \cup {Some(r) : r \in ScriptRunners} :
           SetScriptRunner(runner)
    \/ \E status \in {None} \cup {Some(t) : t \in StatusTexts} : SetStatus(status)
    \/ DestroyParent

\* The operator view polling a main window that changes at will.
SpecView == InitView /\ [][NextView]_vars

-----------------------------------------------------------------------------
(* Claims about parse_csv_log *)

\* A data row has a field that fails conversion: a non-empty cell of a
\* resolved column that float() rejects.
FailsConversion(row) ==
    \/ time_col # None /\ row.time # Empty /\ ~IsFloat(row.time)
    \/ row.position # Empty /\ ~IsFloat(row.position)
    \/ row.force # Empty /\ ~IsFloat(row.force)
    \/ energy_col # None /\ row.energy # Empty /\ ~IsFloat(row.energy)

\* The row numbers that contributed an element to some list.
Contributors ==
    {origin.times[i] : i \in DOMAIN origin.times}
        \cup {origin.positions[i] : i \in DOMAIN origin.positions}
        \cup {origin.forces[i] : i \in DOMAIN origin.forces}
        \cup {origin.energies[i] : i \in DOMAIN origin.energies}

\* C1: for every log parse_csv_log accepts, whatever mix of valid, empty-cell
\* and malformed rows it holds, the returned lists satisfy
\* len(positions) = len(forces) = len(times) and len(energies) <= len(positions).
C1_TruncationInvariant ==
    pc # "reading" =>
        /\ Len(positions) = Len(forces)
        /\ Len(forces) = Len(times)
        /\ Len(energies) <= Len(positions)

\* C1 witness: the first of two rows has a malformed position, so it left
\* only a time behind; the lists were cut to the one complete sample.
C1_Witness ==
    /\ pc = "parsed"
    /\ Len(rows) = 2
    /\ rows[1].position = Malformed
    /\ origin.times = <<1>>
    /\ origin.positions = <<2>>
    /\ Len(forces) = 1

\* C2: a row with a field that fails conversion contributes no element to any
\* of times, positions, forces, energies, and for every index i of the result
\* times[i], positions[i] and forces[i] come from the same data row.
C2_RowsSkippedWhole ==
    pc = "parsed" =>
        /\ \A n \in DOMAIN rows : FailsConversion(rows[n]) => n \notin Contributors
        /\ \A i \in DOMAIN positions :
               /\ origin.times[i] = origin.positions[i]
               /\ origin.positions[i] = origin.forces[i]

-----------------------------------------------------------------------------
(* Claims about calculate_metrics and the final verdict *)

\* The threshold rule: undefined exactly when both bounds are absent; false
\* exactly when a present bound is violated; bounds are inclusive.
FollowsRule(verdict, value, min, max) ==
    /\ verdict \in {None, Some(TRUE), Some(FALSE)}
    /\ verdict = None <=> (min = None /\ max = None)
    /\ verdict = Some(FALSE) <=>
           \/ min # None /\ value < Val(min)
           \/ max # None /\ value > Val(max)

\* The reason for a given set of failing criteria, in the order force,
\* endpoint, energy.
FailedReason(force_fails, endpoint_fails, energy_fails) ==
    CASE force_fails /\ endpoint_fails /\ energy_fails -> "Failed: force, endpoint, energy"
      [] force_fails /\ endpoint_fails /\ ~energy_fails -> "Failed: force, endpoint"
      [] force_fails /\ ~endpoint_fails /\ energy_fails -> "Failed: force, energy"
      [] force_fails /\ ~endpoint_fails /\ ~energy_fails -> "Failed: force"
      [] ~force_fails /\ endpoint_fails /\ energy_fails -> "Failed: endpoint, energy"
      [] ~force_fails /\ endpoint_fails /\ ~energy_fails -> "Failed: endpoint"
      [] ~force_fails /\ ~endpoint_fails /\ energy_fails -> "Failed: energy"
      [] OTHER -> "Failed: "

\* The aggregation rule over three verdicts, with a given success reason.
Aggregates(overall, reason, force, endpoint, energy, success) ==
    LET any_false == Some(FALSE) \in {force, endpoint, energy}
        any_defined == {force, endpoint, energy} # {None}
    IN  /\ any_false =>
               /\ overall = Some(FALSE)
               /\ reason = FailedReason(force = Some(FALSE), endpoint = Some(FALSE),
                                        energy = Some(FALSE))
        /\ any_defined /\ ~any_false =>
               /\ overall = Some(TRUE)
               /\ reason = success

\* C3: each criterion's verdict is undefined exactly when both of its bounds
\* are absent, false exactly when a present min bound has value < min or a
\* present max bound has value > max, and true otherwise: equality passes.
C3_VerdictRule ==
    pc = "metrics" =>
        /\ FollowsRule(metrics.peak_force_pass, metrics.peak_force,
                       thresholds.force_min, thresholds.force_max)
        /\ FollowsRule(metrics.endpoint_pass, metrics.endpoint,
                       thresholds.endpoint_min, thresholds.endpoint_max)
        /\ FollowsRule(metrics.energy_pass, metrics.energy,
                       thresholds.energy_min, thresholds.energy_max)

\* C3 witness: force_min = force_max = 100 and a peak force of exactly 100
\* give the force verdict true.
C3_Witness ==
    /\ pc = "metrics"
    /\ thresholds.force_min = Some(100)
    /\ thresholds.force_max = Some(100)
    /\ metrics.peak_force = 100
    /\ metrics.peak_force_pass = Some(TRUE)

\* C4: the overall verdict ignores undefined verdicts: with a defined verdict
\* false it is false and the reason lists exactly the failing criteria in the
\* order force, endpoint, energy; with a verdict defined and none false it is
\* true with the reason "All thresholds met".
C4_OverallAggregation ==
    pc = "metrics" =>
        Aggregates(metrics.overall_pass, metrics.pass_fail_reason,
                   metrics.peak_force_pass, metrics.endpoint_pass,
                   metrics.energy_pass, "All thresholds met")

\* C4 witness: force true, endpoint undefined, energy false.
C4_Witness ==
    /\ pc = "metrics"
    /\ metrics.peak_force_pass = Some(TRUE)
    /\ metrics.endpoint_pass = None
    /\ metrics.energy_pass = Some(FALSE)
    /\ metrics.overall_pass = Some(FALSE)
    /\ metrics.pass_fail_reason = "Failed: energy"

\* C5: with all six bounds absent the report's overall verdict is undefined
\* and its reason is "No thresholds defined", with or without a telemetry
\* endpoint.
C5_NoThresholds ==
    pc = "context" /\ thresholds = NoThresholds =>
        /\ context.overall_pass = None
        /\ context.pass_fail_reason = "No thresholds defined"

\* C5 witness: a report without thresholds for which a telemetry endpoint
\* different from the log's last position was supplied.
C5_Witness ==
    /\ pc = "context"
    /\ thresholds = NoThresholds
    /\ telemetry_endpoint # None
    /\ context.endpoint # metrics.endpoint
    /\ context.overall_pass = None

\* C6: peak_force is the maximum of the forces and peak_force_position the
\* position at the earliest index whose force equals it.
C6_PeakForce ==
    pc = "metrics" =>
        /\ \A i \in DOMAIN forces : forces[i] <= metrics.peak_force
        /\ \E i \in DOMAIN forces :
               /\ forces[i] = metrics.peak_force
               /\ \A j \in 1..(i - 1) : forces[j] < metrics.peak_force
               /\ metrics.peak_force_position = positions[i]

\* C6 witness: two samples tie at the maximum force at different positions
\* and the position of the earlier one is reported.
C6_Witness ==
    /\ pc = "metrics"
    /\ forces = <<50, 100, 100>>
    /\ positions = <<0, 10, 60>>
    /\ metrics.peak_force_position = 10

\* C7: when the telemetry endpoint changes the endpoint verdict, the final
\* overall verdict and reason are the aggregation over the unchanged force
\* verdict, the new endpoint verdict and the unchanged energy verdict, and
\* the reason on success is "All checks passed".
C7_OverrideRecomputes ==
    pc = "context" /\ context.endpoint_pass # metrics.endpoint_pass =>
        Aggregates(context.overall_pass, context.pass_fail_reason,
                   metrics.peak_force_pass, context.endpoint_pass,
                   metrics.energy_pass, "All checks passed")

\* C7 witness: the log's endpoint 60 fails endpoint_max = 50, the telemetry
\* endpoint 40 passes, and the report passes with "All checks passed".
C7_Witness ==
    /\ pc = "context"
    /\ metrics.endpoint = 60
    /\ thresholds.endpoint_max = Some(50)
    /\ telemetry_endpoint = Some(40)
    /\ metrics.overall_pass = Some(FALSE)
    /\ context.overall_pass = Some(TRUE)
    /\ context.pass_fail_reason = "All checks passed"

\* C8: with a telemetry endpoint the context's endpoint is that value and its
\* endpoint_pass is the threshold rule applied to it; without one both are
\* those of calculate_metrics.
C8_EndpointOverride ==
    pc = "context" =>
        IF telemetry_endpoint # None
        THEN /\ context.endpoint = Val(telemetry_endpoint)
             /\ FollowsRule(context.endpoint_pass, Val(telemetry_endpoint),
                            thresholds.endpoint_min, thresholds.endpoint_max)
        ELSE /\ context.endpoint = metrics.endpoint
             /\ context.endpoint_pass = metrics.endpoint_pass

\* C8 witness: the log ends at 60, the telemetry endpoint 40 is reported and
\* judged instead.
C8_Witness ==
    /\ pc = "context"
    /\ Last(positions) = 60
    /\ telemetry_endpoint = Some(40)
    /\ thresholds.endpoint_max = Some(50)
    /\ context.endpoint = 40
    /\ context.endpoint_pass = Some(TRUE)
    /\ metrics.endpoint_pass = Some(FALSE)

\* The work of the sample pair (i-1, i): average force times 9.81 times the
\* absolute displacement, in units of 1/JouleScale joule.
PairWork(i) ==
    (forces[i] + forces[i - 1]) * Gravity * Abs(positions[i] - positions[i - 1])

RECURSIVE SumPairWork(_)
SumPairWork(pairs) ==
    IF pairs = {} THEN 0
    ELSE LET i == CHOOSE i \in pairs : TRUE
         IN  PairWork(i) + SumPairWork(pairs \ {i})

\* C9: without energy samples the energy is the sum over consecutive pairs of
\* ((force[i]+force[i-1])/2) * 9.81 * (|position[i]-position[i-1]|/1000):
\* 9.81 J for positions 0, 10 mm at a constant 100 kg, and a stroke forward
\* and back by the same distance at a constant force counts its work twice.
C9_FallbackEnergy ==
    pc = "metrics" /\ energies = <<>> =>
        /\ metrics.energy = SumPairWork(2..Len(positions))
        /\ positions = <<0, 10>> /\ forces = <<100, 100>> =>
               metrics.energy * 100 = 981 * JouleScale
        /\ /\ Len(positions) = 3
           /\ positions[3] = positions[1]
           /\ forces[1] = forces[2]
           /\ forces[2] = forces[3]
           => metrics.energy =
                  2 * (2 * forces[1] * Gravity * Abs(positions[2] - positions[1]))

\* C9 witness: 0 -> 10 -> 0 mm at a constant 100 kg is reported as 19.62 J.
C9_Witness ==
    /\ pc = "metrics"
    /\ energies = <<>>
    /\ positions = <<0, 10, 0>>
    /\ forces = <<100, 100, 100>>
    /\ metrics.energy * 100 = 1962 * JouleScale

\* The data rows that carry an energy sample.
EnergyRows ==
    {n \in DOMAIN rows : energy_col # None /\ IsFloat(rows[n].energy)}

\* C10: when the log holds an energy sample, the reported energy is the value
\* of the last data row that carries one; the fallback integration is used
\* only when the log holds none.
C10_LastLoggedEnergy ==
    pc = "metrics" =>
        IF EnergyRows # {}
        THEN LET last == CHOOSE n \in EnergyRows : \A k \in EnergyRows : k <= n
             IN  metrics.energy = Float(rows[last].energy) * JouleScale
        ELSE metrics.energy = SumPairWork(2..Len(positions))

-----------------------------------------------------------------------------
(* Claims about the failures of generate_report *)

\* s begins with prefix.
StartsWith(prefix, s) ==
    Len(s) >= Len(prefix) /\ SubSeq(s, 1, Len(prefix)) = prefix

\* The invocation has returned the failure triple (False, message, None).
ReturnedFailure ==
    /\ pc = "returned"
    /\ result.success = FALSE
    /\ result.output_path = None

\* The message of the failure is the one for missing columns.
IsMissingColumnsMessage(message) ==
    StartsWith("Error generating report: CSV file missing required columns.",
               message)

\* C11: a log that exists and in which no header resolves to a position column
\* or none resolves to a force column makes the invocation return a failure
\* whose message is the missing-columns error and holds every header found;
\* success is false, no output path is returned, no context is assembled and
\* no output file is written.
C11_MissingColumnsFail ==
    (pc \notin {"open", "header"} /\ env.csv_exists
        /\ (pos_col = None \/ force_col = None))
    => /\ ReturnedFailure
       /\ IsMissingColumnsMessage(result.message)
       /\ \A i \in DOMAIN headers : Contains(Quoted(headers[i]), result.message)
       /\ context = None
       /\ metrics = None
       /\ output_file = "absent"

\* A log with a position header and no force header has been refused.
C11_Witness ==
    /\ pc = "returned"
    /\ pos_col # None
    /\ force_col = None
    /\ Len(headers) = 2
    /\ IsMissingColumnsMessage(result.message)
    /\ Contains("['position', 'serial']", result.message)

\* C12: a log whose position and force columns resolve and which yields no
\* sample makes the invocation return the failure "No valid data found in CSV
\* file", which is not the missing-columns message; no metrics are computed, no
\* context is assembled and no output file is written.
C12_EmptyLogFails ==
    (pc \notin {"open", "header", "reading", "parsed"}
        /\ pos_col # None /\ force_col # None /\ positions = <<>>)
    => /\ ReturnedFailure
       /\ result.message = "No valid data found in CSV file"
       /\ ~IsMissingColumnsMessage(result.message)
       /\ result # Unexpected(MissingColumnsText(headers))
       /\ metrics = None
       /\ context = None
       /\ output_file = "absent"

\* A log whose only data row has no position has been refused as empty.
C12_Witness ==
    /\ pc = "returned"
    /\ pos_col # None
    /\ force_col # None
    /\ Len(rows) = 1
    /\ rows[1].position = Empty
    /\ positions = <<>>
    /\ result.message = "No valid data found in CSV file"

\* C13: the invocation returns the message "CSV file not found" if and only
\* if the log path does not exist.
C13_FileNotFoundIff ==
    pc = "returned"
    => (StartsWith("CSV file not found", result.message) <=> ~env.csv_exists)

\* C14: every failure returns (False, message, None), and in every outcome a
\* file is at the output path exactly when the success flag is true.
C14_FileWrittenIffSuccess ==
    pc = "returned"
    => /\ ~result.success => result.output_path = None
       /\ output_file # "absent" <=> result.success

-----------------------------------------------------------------------------
(* Claims about calculate_metrics on empty input *)

\* C16: calculate_metrics called with an empty position or force list
\* returns, whatever the thresholds, exactly the seven fields peak_force,
\* peak_force_position, start_position, endpoint, energy, duration and
\* data_points, all 0, and no per-criterion or overall verdict.
C16_EmptyInputZeroed ==
    (pc = "measured" /\ (positions = <<>> \/ forces = <<>>))
    => /\ metrics = [peak_force |-> 0, peak_force_position |-> 0,
                     start_position |-> 0, endpoint |-> 0, energy |-> 0,
                     duration |-> 0, data_points |-> 0]
       /\ DOMAIN metrics \cap {"peak_force_pass", "endpoint_pass", "energy_pass",
                               "overall_pass", "pass_fail_reason"} = {}

\* calculate_metrics has returned for positions without forces, with a force
\* threshold given.
C16_Witness ==
    /\ pc = "measured"
    /\ positions = <<10>>
    /\ forces = <<>>
    /\ thresholds.force_min # None
    /\ metrics.data_points = 0

-----------------------------------------------------------------------------
(* Claims about the verdict of the assembled context *)

\* C17: when the endpoint verdict recomputed from the final endpoint equals
\* the one calculate_metrics returned, which is always so without a telemetry
\* endpoint, the context's overall verdict and reason are those of
\* calculate_metrics: a passing report says "All thresholds met", never
\* "All checks passed".
C17_UnchangedVerdictKept ==
    pc = "context" =>
        /\ telemetry_endpoint = None => context.endpoint_pass = metrics.endpoint_pass
        /\ context.endpoint_pass = metrics.endpoint_pass =>
               /\ context.overall_pass = metrics.overall_pass
               /\ context.pass_fail_reason = metrics.pass_fail_reason
               /\ context.pass_fail_reason # "All checks passed"
               /\ context.overall_pass = Some(TRUE) =>
                      context.pass_fail_reason = "All thresholds met"

\* C17 witness: the log's endpoint 60 and the telemetry endpoint 40 both pass
\* endpoint_min = 10, and the report passes with "All thresholds met".
C17_Witness ==
    /\ pc = "context"
    /\ metrics.endpoint = 60
    /\ telemetry_endpoint = Some(40)
    /\ thresholds.endpoint_min = Some(10)
    /\ metrics.endpoint_pass = Some(TRUE)
    /\ context.endpoint_pass = Some(TRUE)
    /\ context.overall_pass = Some(TRUE)
    /\ context.pass_fail_reason = "All thresholds met"

\* The verdicts shown in the context, in the order force, endpoint, energy.
ShownVerdicts ==
    <<context.peak_force_pass, context.endpoint_pass, context.energy_pass>>

\* C18: in every assembled context the overall verdict is undefined iff the
\* three verdicts shown with it are all undefined, false iff one of them is
\* false, and true otherwise; a reason starting with "Failed: " lists exactly
\* the criteria whose shown verdict is false.
C18_OverallAgreesWithShown ==
    pc = "context" =>
        LET shown == {ShownVerdicts[i] : i \in 1..3}
        IN  /\ context.overall_pass = None <=> shown = {None}
            /\ context.overall_pass = Some(FALSE) <=> Some(FALSE) \in shown
            /\ context.overall_pass = Some(TRUE) <=>
                   (shown # {None} /\ Some(FALSE) \notin shown)
            /\ StartsWith("Failed: ", context.pass_fail_reason) =>
                   context.pass_fail_reason =
                       FailedReason(ShownVerdicts[1] = Some(FALSE),
                                    ShownVerdicts[2] = Some(FALSE),
                                    ShownVerdicts[3] = Some(FALSE))

\* C18 witness: the log's endpoint 10 passes endpoint_max = 50, the telemetry
\* endpoint 60 fails it, and the context fails for the endpoint alone.
C18_Witness ==
    /\ pc = "context"
    /\ metrics.endpoint = 10
    /\ telemetry_endpoint = Some(60)
    /\ thresholds.endpoint_max = Some(50)
    /\ metrics.overall_pass = Some(TRUE)
    /\ context.endpoint_pass = Some(FALSE)
    /\ context.overall_pass = Some(FALSE)
    /\ context.pass_fail_reason = "Failed: endpoint"

-----------------------------------------------------------------------------
(* Claims about column detection *)

\* The patterns each header name matches, case ignored.
Matches ==
    [h \in HeaderNames |->
        LET l == Lower(h)
        IN  [position |-> Contains("current_pos", l) \/ Contains("position", l),
             load_cell |-> Contains("force_load_cell", l),
             motor_torque |-> Contains("force_motor_torque", l),
             energy |-> Contains("joules", l) \/ Contains("energy", l),
             elapsed |-> Contains("elapsed", l),
             date |-> l = "date"]]

IsPosition(h) == Matches[h].position

IsLoadCell(h) == Matches[h].load_cell

IsMotorTorque(h) == Matches[h].motor_torque

IsEnergy(h) == Matches[h].energy

IsElapsed(h) == Matches[h].elapsed

IsDate(h) == Matches[h].date

\* The header loop has run on a log that exists.
HeadersSeen == pc \notin {"open", "header"} /\ env.csv_exists

\* The rule that claims header i when the position rule has the given
\* priority over the two force rules.  The motor-torque rule applies only
\* while no earlier header has been claimed as the force column.
RuleOf(i, position_first) ==
    LET h == headers[i]
        force_claimed(j) ==
            /\ IsLoadCell(headers[j]) \/ IsMotorTorque(headers[j])
            /\ position_first => ~IsPosition(headers[j])
        no_force_yet == \A j \in 1..(i - 1) : ~force_claimed(j)
        force_rule ==
            IF IsLoadCell(h) THEN "load_cell"
            ELSE IF IsMotorTorque(h) /\ no_force_yet THEN "motor_torque"
            ELSE "none"
        later_rule ==
            IF IsEnergy(h) THEN "energy"
            ELSE IF IsElapsed(h) THEN "elapsed"
            ELSE IF IsDate(h) THEN "date"
            ELSE "none"
    IN  IF position_first
        THEN IF IsPosition(h) THEN "position"
             ELSE IF force_rule # "none" THEN force_rule
             ELSE later_rule
        ELSE IF force_rule # "none" THEN force_rule
             ELSE IF IsPosition(h) THEN "position"
             ELSE later_rule

\* The last header a rule claims, if it claims one.
LastClaimed(rule, position_first) ==
    LET claimed == {i \in DOMAIN headers : RuleOf(i, position_first) = rule}
    IN  IF claimed = {} THEN None
        ELSE Some(headers[CHOOSE i \in claimed : \A j \in claimed : j <= i])

\* The columns are those of the last header each rule claims; a load-cell
\* claim stands against a motor-torque claim.
ColumnsFollow(position_first) ==
    LET load_cell == LastClaimed("load_cell", position_first)
        motor_torque == LastClaimed("motor_torque", position_first)
    IN  /\ pos_col = LastClaimed("position", position_first)
        /\ force_col = (IF load_cell # None THEN load_cell ELSE motor_torque)
        /\ detected_force_mode =
               (IF load_cell # None THEN Some("Load Cell")
                ELSE IF motor_torque # None THEN Some("Motor Torque")
                ELSE None)
        /\ energy_col = LastClaimed("energy", position_first)
        /\ time_col = LastClaimed("elapsed", position_first)
        /\ date_col = LastClaimed("date", position_first)

\* C19 as stated: each header goes to the first matching rule in the order
\* load cell, motor torque, position, energy, elapsed, date, so that a header
\* matching a force rule and the position rule becomes the force column.
C19_ForceRulesFirst == HeadersSeen => ColumnsFollow(FALSE)

\* C19 amended: each header goes to the first matching rule in the order
\* position, load cell, motor torque (while no force column is claimed yet),
\* energy, elapsed, date, so that a header matching a force rule and the
\* position rule becomes the position column.
C19_PositionRuleFirst ==
    HeadersSeen =>
        /\ ColumnsFollow(TRUE)
        /\ \A i \in DOMAIN headers :
               IsPosition(headers[i]) /\ IsLoadCell(headers[i]) =>
                   force_col # Some(headers[i])

\* C19 witness: a report was generated from a log whose position header also
\* matches the load-cell pattern.
C19_Witness ==
    /\ pc = "returned"
    /\ result.success
    /\ headers = <<"force_motor_torque", "force_load_cell_position">>
    /\ pos_col = Some("force_load_cell_position")
    /\ force_col = Some("force_motor_torque")

\* C20 as stated: with a load-cell header and a motor-torque header in the
\* header row the force column is a load-cell header and the mode is Load
\* Cell; the mode is Motor Torque only when there is no load-cell header.
C20_LoadCellPreferred ==
    HeadersSeen =>
        /\ ((\E i \in DOMAIN headers : IsLoadCell(headers[i]))
               /\ (\E j \in DOMAIN headers : IsMotorTorque(headers[j])))
           => /\ force_col # None
              /\ IsLoadCell(Val(force_col))
              /\ detected_force_mode = Some("Load Cell")
        /\ detected_force_mode = Some("Motor Torque")
           => ~\E i \in DOMAIN headers : IsLoadCell(headers[i])

\* A load-cell header that the position rule does not claim.
IsLoadCellOnly(h) == IsLoadCell(h) /\ ~IsPosition(h)

\* C20 amended: the same for load-cell headers that match neither position
\* pattern.
C20_LoadCellOnlyPreferred ==
    HeadersSeen =>
        /\ ((\E i \in DOMAIN headers : IsLoadCellOnly(headers[i]))
               /\ (\E j \in DOMAIN headers : IsMotorTorque(headers[j])))
           => /\ force_col # None
              /\ IsLoadCellOnly(Val(force_col))
              /\ detected_force_mode = Some("Load Cell")
        /\ detected_force_mode = Some("Motor Torque")
           => ~\E i \in DOMAIN headers : IsLoadCellOnly(headers[i])

\* C20 witness: a report was generated from a log whose load-cell header
\* comes before its motor-torque header.
C20_Witness ==
    /\ pc = "returned"
    /\ result.success
    /\ headers = <<"Force_Load_Cell", "force_motor_torque", "position">>
    /\ force_col = Some("Force_Load_Cell")
    /\ detected_force_mode = Some("Load Cell")

\* The rule whose pattern a header matches first, in the order position, load
\* cell, motor torque, energy, elapsed, date.
PatternOf(h) ==
    IF IsPosition(h) THEN "position"
    ELSE IF IsLoadCell(h) THEN "load_cell"
    ELSE IF IsMotorTorque(h) THEN "motor_torque"
    ELSE IF IsEnergy(h) THEN "energy"
    ELSE IF IsElapsed(h) THEN "elapsed"
    ELSE IF IsDate(h) THEN "date"
    ELSE "none"

\* The indices of the headers that match a rule.
Matching(rule) == {i \in DOMAIN headers : PatternOf(headers[i]) = rule}

\* The last header that matches a rule, if one does.
LastMatching(rule) ==
    IF Matching(rule) = {} THEN None
    ELSE Some(headers[CHOOSE i \in Matching(rule) : \A j \in Matching(rule) : j <= i])

\* The first header that matches a rule, if one does.
FirstMatching(rule) ==
    IF Matching(rule) = {} THEN None
    ELSE Some(headers[CHOOSE i \in Matching(rule) : \A j \in Matching(rule) : i <= j])

\* C21 as stated: each column is the last header in file order that matches
\* its rule; the force column is the last load-cell header, or the last
\* motor-torque header when there is no load-cell header.
C21_LastMatchWins ==
    HeadersSeen =>
        /\ pos_col = LastMatching("position")
        /\ force_col = (IF Matching("load_cell") # {} THEN LastMatching("load_cell")
                        ELSE LastMatching("motor_torque"))
        /\ energy_col = LastMatching("energy")
        /\ time_col = LastMatching("elapsed")
        /\ date_col = LastMatching("date")

\* A motor-torque header that comes after a force header is not taken as the
\* force column and is passed on to the rules after the motor-torque rule.
PassedOn(i) ==
    /\ PatternOf(headers[i]) = "motor_torque"
    /\ \E j \in 1..(i - 1) : PatternOf(headers[j]) \in {"load_cell", "motor_torque"}

\* The last header with an index in a set, if the set has one.
LastOf(indices) ==
    IF indices = {} THEN None
    ELSE Some(headers[CHOOSE i \in indices : \A j \in indices : j <= i])

\* C21 amended: the position and date columns are the last matching header
\* and the force column is the last load-cell header; without a load-cell
\* header the force column is the first motor-torque header.  The energy and
\* time columns are the last header their rule claims, counting the
\* motor-torque headers passed on to them.
C21_LastMatchWinsButTorque ==
    HeadersSeen =>
        /\ pos_col = LastMatching("position")
        /\ date_col = LastMatching("date")
        /\ force_col = (IF Matching("load_cell") # {} THEN LastMatching("load_cell")
                        ELSE FirstMatching("motor_torque"))
        /\ energy_col =
               LastOf(Matching("energy")
                      \cup {i \in DOMAIN headers :
                               PassedOn(i) /\ IsEnergy(headers[i])})
        /\ time_col =
               LastOf(Matching("elapsed")
                      \cup {i \in DOMAIN headers :
                               /\ PassedOn(i)
                               /\ ~IsEnergy(headers[i])
                               /\ IsElapsed(headers[i])})

\* C21 witness: a log with two motor-torque headers and two position headers
\* resolves to the first motor-torque header and the last position header.
C21_Witness ==
    /\ HeadersSeen
    /\ headers = <<"force_motor_torque", "FORCE_MOTOR_TORQUE", "position">>
    /\ force_col = Some("force_motor_torque")
    /\ pos_col = Some("position")

-----------------------------------------------------------------------------
(* Claims about the chart window *)

\* C22: for every non-empty parsed log and every press_startpoint the window
\* satisfies 0 <= start_idx < end_idx <= number of samples; the clipped
\* position, force and time slices have the same length end_idx - start_idx,
\* at least 1, and begin with the sample at start_idx.
C22_WindowNonEmpty ==
    chart # None =>
        LET n == chart.end_idx - chart.start_idx
        IN  /\ 0 <= chart.start_idx
            /\ chart.start_idx < chart.end_idx
            /\ chart.end_idx <= Len(positions)
            /\ n >= 1
            /\ Len(chart.positions) = n
            /\ Len(chart.forces) = n
            /\ Len(chart.times) = n
            /\ chart.positions[1] = positions[chart.start_idx + 1]
            /\ chart.forces[1] = forces[chart.start_idx + 1]
            /\ chart.times[1] = times[chart.start_idx + 1]

\* C22 witness: the press reaches the start point 30 only at its farthest
\* sample, and the window is that one sample.
C22_Witness ==
    /\ chart # None
    /\ positions = <<10, 60, 10>>
    /\ press_startpoint = Some(30)
    /\ chart.start_idx = 1
    /\ chart.endpoint_idx = 1
    /\ chart.end_idx = 2
    /\ chart.positions = <<60>>

\* The samples, counted from 0, whose position reaches the start point.
Reaching == {i \in 0..(Len(positions) - 1) : positions[i + 1] >= Val(press_startpoint)}

\* C23: start_idx is the first index whose position is >= press_startpoint
\* when press_startpoint is present and > 0 and some sample reaches it; it is
\* 0 when press_startpoint is absent, zero or negative, or when no sample
\* reaches it.
C23_StartIdx ==
    chart # None =>
        IF press_startpoint # None /\ Val(press_startpoint) > 0 /\ Reaching # {}
        THEN /\ chart.start_idx \in Reaching
             /\ \A i \in Reaching : chart.start_idx <= i
        ELSE chart.start_idx = 0

\* C23 witness: the second sample is the first at the start point 10.
C23_Witness ==
    /\ chart # None
    /\ positions = <<0, 10, 60>>
    /\ press_startpoint = Some(10)
    /\ chart.start_idx = 1
    /\ chart.positions = <<10, 60>>

\* C24: when start_idx <= endpoint_idx the window ends at the first sample
\* holding the largest position: the last clipped position is the maximum of
\* all positions, no earlier sample holds it, every later sample is left out
\* of the slices, and the payload holds the full position and force traces.
C24_WindowEndsAtFarthest ==
    (chart # None /\ chart.start_idx <= chart.endpoint_idx) =>
        /\ Last(chart.positions) = ListMax(positions)
        /\ positions[chart.endpoint_idx + 1] = ListMax(positions)
        /\ \A i \in 1..chart.endpoint_idx : positions[i] < ListMax(positions)
        /\ chart.end_idx = chart.endpoint_idx + 1
        /\ chart.positions = SubSeq(positions, chart.start_idx + 1, chart.endpoint_idx + 1)
        /\ chart.forces = SubSeq(forces, chart.start_idx + 1, chart.endpoint_idx + 1)
        /\ chart.times = SubSeq(times, chart.start_idx + 1, chart.endpoint_idx + 1)
        /\ chart.full_positions = positions
        /\ chart.full_forces = forces

\* C24 witness: the press retracts to 10 after reaching 60, and the window
\* leaves the retraction out while the full trace keeps it.
C24_Witness ==
    /\ chart # None
    /\ positions = <<10, 60, 10>>
    /\ press_startpoint = None
    /\ chart.positions = <<10, 60>>
    /\ chart.full_positions = <<10, 60, 10>>

-----------------------------------------------------------------------------
(* Claims about the energy gauge *)

\* A percentage within the bar, from 0 to 100.
OnBar(percent) == 0 <= percent.num /\ percent.num <= percent.den

\* C25: whatever the energy and the energy bounds, energy_percent,
\* energy_min_percent and energy_max_percent each lie between 0 and 100.
C25_GaugeOnBar ==
    (pc = "measured" /\ positions # <<>> /\ forces # <<>>)
    => /\ OnBar(metrics.energy_percent)
       /\ OnBar(metrics.energy_min_percent)
       /\ OnBar(metrics.energy_max_percent)

-----------------------------------------------------------------------------
(* Claims about the session timestamps and the synthesized times *)

\* The first and the last element of a non-empty set of row numbers.
FirstRow(ns) == CHOOSE n \in ns : \A m \in ns : n <= m

LastRow(ns) == CHOOSE n \in ns : \A m \in ns : m <= n

\* The rows whose date cell and time_ms cell are both there and parse.
TimedRows ==
    {n \in DOMAIN rows :
        /\ date_col # None
        /\ rows[n].date \in DOMAIN DayValue
        /\ rows[n].time_ms # None
        /\ Val(rows[n].time_ms) \in DOMAIN ClockValue}

\* The timestamp a row's date and time_ms cells denote.
TimedStamp(n) ==
    Some([day |-> DayValue[rows[n].date], ms |-> ClockValue[Val(rows[n].time_ms)]])

\* C26 as stated: start_time is the timestamp of the first row whose date and
\* time_ms field are both present and parse, end_time that of the last such
\* row, and both are absent when there is no such row.
C26_StampsFromTimedRows ==
    /\ start_time = (IF TimedRows = {} THEN None ELSE TimedStamp(FirstRow(TimedRows)))
    /\ end_time = (IF TimedRows = {} THEN None ELSE TimedStamp(LastRow(TimedRows)))

\* The rows in which no conversion fails and whose date parses, together
\* with the time_ms cell when the log has a time_ms column.
StampingRows ==
    {n \in DOMAIN rows :
        /\ ~FailsConversion(rows[n])
        /\ date_col # None
        /\ rows[n].date \in DOMAIN DayValue
        /\ HasTimeMs =>
               /\ rows[n].time_ms # None
               /\ Val(rows[n].time_ms) \in DOMAIN ClockValue}

\* The timestamp of such a row: midnight when the log has no time_ms column.
RowStamp(n) ==
    Some([day |-> DayValue[rows[n].date],
          ms |-> IF HasTimeMs THEN ClockValue[Val(rows[n].time_ms)] ELSE 0])

\* C26 amended: start_time is the timestamp of the first row in which no
\* conversion fails and whose date parses together with its time_ms cell, or
\* with 00:00:00.000 when the log has no time_ms column; end_time is that of
\* the last such row; both are absent when there is no such row.
C26_StampsWithDefaultTime ==
    /\ start_time = (IF StampingRows = {} THEN None ELSE RowStamp(FirstRow(StampingRows)))
    /\ end_time = (IF StampingRows = {} THEN None ELSE RowStamp(LastRow(StampingRows)))

\* C26 witness: a log with a date column and no time_ms column has been read,
\* and its two rows gave the timestamps of two midnights.
C26_Witness ==
    /\ pc = "parsed"
    /\ ~HasTimeMs
    /\ Len(rows) = 2
    /\ start_time = Some([day |-> 2, ms |-> 0])
    /\ end_time = Some([day |-> 3, ms |-> 0])

\* C27: without a time column the elapsed time at index i of the times is
\* i * 0.02, whatever rows were skipped.
C27_SynthesizedTimes ==
    time_col = None =>
        \A i \in DOMAIN times : times[i] = (i - 1) * SampleStep

\* C27 witness: the first row was abandoned at its position and the second
\* row is the only sample, at time 0.
C27_Witness ==
    /\ pc = "parsed"
    /\ time_col = None
    /\ Len(rows) = 2
    /\ rows[1].position = Malformed
    /\ origin.positions = <<2>>
    /\ times = <<0>>

-----------------------------------------------------------------------------
(* The simulator's commands and tasks *)

\* The command handle_command was given in its call number id.
Logged(id) == sim.log[id]

\* A pressboi.home, pressboi.move or pressboi.retract command, in any
\* capitals, whose argument (where the command reads one) is a number.
IsMotion(c) ==
    \/ CmdLower[c.command] = "pressboi.home"
    \/ /\ CmdLower[c.command] \in {"pressboi.move", "pressboi.retract"}
       /\ ~Raises(c.args)

\* Call number id has been made and was such a command.
Accepted(id) == id <= Len(sim.log) /\ IsMotion(Logged(id))

\* The DONE datagrams sent by the task of call number id.
DonesOf(id) == {i \in DOMAIN sim.sent : sim.sent[i].task = id}

\* The step is a call of handle_command with an accepted command: MAIN_STATE
\* is HOMING or MOVING afterwards and command_queue is one task longer.
AcceptedQueuesOne ==
    (Len(sim'.log) = Len(sim.log) + 1 /\ IsMotion(sim'.log[Len(sim'.log)])) =>
        /\ sim'.state.MAIN_STATE \in {"HOMING", "MOVING"}
        /\ Len(sim'.command_queue) = Len(sim.command_queue) + 1
        /\ sim'.command_queue[Len(sim'.command_queue)].id = Len(sim'.log)

\* The step sends a datagram: it is "DONE: <command>" for the running task's
\* command, to the GUI address, and the step leaves MAIN_STATE at STANDBY and
\* current_pos at the task's target (0, homed, for a homing).
DoneAtTarget ==
    (Len(sim'.sent) > Len(sim.sent)) =>
        /\ sim.running # None
        /\ LET task == Val(sim.running).task
               msg == sim'.sent[Len(sim'.sent)]
           IN  /\ Len(sim'.sent) = Len(sim.sent) + 1
               /\ msg.task = task.id
               /\ msg.data = "DONE: " \o Logged(task.id).command
               /\ msg.address = GuiAddress
               /\ sim'.state.MAIN_STATE = "STANDBY"
               /\ IF task.func = "simulate_homing"
                  THEN sim'.state.current_pos = 0 /\ sim'.state.homed = 1
                  ELSE sim'.state.current_pos = task.target

C29_NoDoneOnceStopped ==
    \A i \in DOMAIN sim.sent : ~sim.sent[i].stopped

-----------------------------------------------------------------------------
(* The operator view's indicator *)

\* The status texts that tell of a completed reset.
ResetCompleteTexts == {"Reset complete", "pressboi DONE: reset"}

\* The poll reads a status text that tells of a completed reset.
ResetSeen ==
    /\ shared_gui_refs.status_var # None
    /\ Val(shared_gui_refs.status_var) \in ResetCompleteTexts

\* The poll finds the script stopped that the poll before found running.
StopSeen == view.prev_running /\ ~Observed(shared_gui_refs).is_running

\* A stop without errors and without a hold.
CleanStopSeen ==
    /\ StopSeen
    /\ ~Observed(shared_gui_refs).had_errors
    /\ ~Observed(shared_gui_refs).is_held

\* What a step that changes the indicator from PASS or FAIL has observed.
VerdictLeft ==
    LET seen == Observed(shared_gui_refs)
        after == view'.pass_fail_var
    IN  (view.pass_fail_var \in {"PASS", "FAIL"} /\ after # view.pass_fail_var) =>
            \/ after = "RUNNING" /\ seen.is_running /\ ~seen.is_held
            \/ after = "FAIL" /\ (seen.is_held \/ (StopSeen /\ seen.had_errors))
            \/ after = "READY" /\ ResetSeen
            \/ after = "PASS" /\ CleanStopSeen

\* What a step that brings the indicator to PASS has observed.
PassSet ==
    (view'.pass_fail_var = "PASS" /\ view.pass_fail_var # "PASS") => CleanStopSeen

\* C30: an indicator showing PASS or FAIL is not replaced by READY because
\* the script is idle: it changes only to RUNNING on a poll that sees a script
\* running and not held, to FAIL on one that sees a hold or an errored stop,
\* to READY on one that reads a reset-complete status text, and to PASS on
\* one that sees a script stop without errors and without a hold; PASS is
\* set on no other poll.
C30_VerdictKeptWhileIdle == [][VerdictLeft /\ PassSet]_vars

\* C30 witness: the indicator shows PASS after a poll that found the script
\* idle, with no runner left and a status text that names no reset.
C30_Witness ==
    /\ view.pass_fail_var = "PASS"
    /\ view.branch = "idle"
    /\ shared_gui_refs.script_runner = None
    /\ shared_gui_refs.status_var = Some("Homing complete")

====
